---- MODULE Spec2Model ----
(***************************************************************************)
(* Request authentication and abuse control of form-bridge.                *)
(*                                                                         *)
(*   - lambdas/optimized-hmac-authorizer.py : TenantSecurityValidator and  *)
(*     its lambda_handler (HMAC signature, timestamp tolerance, secret     *)
(*     cache, failed-attempt tracking per tenant)                          *)
(*   - lambdas/mvp-api-authorizer.py        : API-key authorizer           *)
(*   - ultra-simple/handler.py              : single-function form handler *)
(*                                                                         *)
(* Time is counted in whole seconds.  HMAC-SHA256 is modelled as a perfect *)
(* hash: a digest is the pair (key, message) it was computed from, written *)
(* either in lower-case hex (what hexdigest() returns) or in upper case.   *)
(***************************************************************************)
EXTENDS Integers, Sequences, FiniteSets, TLC

VARIABLES
    now,              \* wall clock, time.time() / datetime.now(timezone.utc)
    failed_attempts,  \* TenantSecurityValidator.failed_attempts: tenant -> list of times
    secret_cache,     \* SecretCache.cache: tenant -> <<secret, time cached>>
    last,             \* the last authorizer request and the decision it got
    table,            \* DynamoDB table of the ultra-simple handler: SK -> item
    simple_last,      \* the last ultra-simple request and its response
    rate_records,     \* RATE#site items of the plugin table: site -> set of TIME# keys
    request_count,    \* request_count attribute of the site items
    wp_proc,          \* position of each invocation of the plugin authorizer
    wp_last,          \* the last plugin authorizer request and the decision it got
    granted,          \* times of the Allow decisions of the plugin authorizer
                      \* whose rate limit queries the table answered
    standby,          \* failed_attempts and cache of a second authorizer instance
    threads,          \* position of each thread inside validate_request
    thread_last,      \* the last decision a thread returned
    limiter_records,  \* RATE#identifier items written by RateLimiter
    limiter_last,     \* the last check_rate_limit call and its result
    sec_counts,       \* request_count of the RATE#hour items of the site and of the address
    sec_last,         \* the last _check_enhanced_rate_limit call and its result
    reg_table,        \* registration and credential items of the domain
    kx_proc,          \* position of each invocation of the key exchange
    reg_last          \* the last response of the registration or key exchange handler

wp_vars == <<rate_records, request_count, wp_proc, wp_last, granted>>

ext_vars == <<standby, threads, thread_last, limiter_records, limiter_last>>

reg_vars == <<sec_counts, sec_last, reg_table, kx_proc, reg_last>>

vars == <<now, failed_attempts, secret_cache, last, table, simple_last, wp_vars,
          ext_vars, reg_vars>>

-----------------------------------------------------------------------------
(* Program constants *)

TIMESTAMP_TOLERANCE_SECONDS == 300
SECRET_CACHE_TTL == 300
MAX_FAILED_ATTEMPTS == 10
\* the literal 3600 of _is_rate_limited: failures older than this are pruned
FAILED_ATTEMPT_HORIZON == 3600
\* the literal 300 of validate_hmac in the ultra-simple handler
SIMPLE_TIMESTAMP_WINDOW == 300
\* failed_auth_lockout_minutes of the documented security policy, in seconds
LOCKOUT_DURATION_SECONDS == 900

(* Bounds of the model *)

MaxTime == 3600          \* the clock stops advancing here

TimeSteps == {1800}      \* how far one Tick moves the clock
TenantIds == {"t_a"}
Bodies == {"b1", "b2"}
Millis == {0, 1}         \* millisecond within the second, for submission ids

-----------------------------------------------------------------------------
(* Values *)

None == "None"

\* the headers member of the event is null: API Gateway sent no header map
NoHeaders == "null"

\* no policy has been returned
NoPolicy == [principalId |-> None, Effect |-> None, context |-> [error |-> None]]

\* x-timestamp header of the authorizer: an ISO-8601 string with offset that
\* denotes second t, a string fromisoformat rejects, or no header at all
IsoTime(t) == [fmt |-> "iso", t |-> t]
BadTime == [fmt |-> "bad", t |-> 0]
NoTime == [fmt |-> "missing", t |-> 0]

\* secrets held by Secrets Manager for a tenant, by version stage
StoreSecret(tenant_id, stage) == <<tenant_id, stage>>
WrongSecret == <<"attacker", "guess">>
\* HMAC_SECRET of the ultra-simple handler
HMAC_SECRET == <<"env", "HMAC_SECRET">>

\* hmac.new(key, message, sha256).hexdigest(): lower-case hex of the digest
HexDigest(key, message) == [kind |-> "hex", key |-> key, msg |-> message, upper |-> FALSE]
\* str.upper() / str.lower() on a signature header
Upper(sig) == IF sig.kind = "hex" THEN [sig EXCEPT !.upper = TRUE] ELSE sig
Lower(sig) == IF sig.kind = "hex" THEN [sig EXCEPT !.upper = FALSE] ELSE sig
NoSig == [kind |-> "missing", key |-> <<"", "">>, msg |-> <<>>, upper |-> FALSE]

\* f"{timestamp}\n{body}" and f"{timestamp}:{body_str}"
Message(timestamp, sep, body) == <<timestamp, sep, body>>

-----------------------------------------------------------------------------
(* SecretCache *)

\* SecretCache.get serving an entry whose age equals the TTL
SecretCacheGet_le(cache, key, t) ==
    IF key \in DOMAIN cache
    THEN IF t - cache[key][2] <= SECRET_CACHE_TTL
         THEN [secret |-> cache[key][1], cache |-> cache]
         ELSE [secret |-> None,
               cache |-> [k \in DOMAIN cache \ {key} |-> cache[k]]]
    ELSE [secret |-> None, cache |-> cache]

\* SecretCache.get: the cached secret if younger than the TTL; an expired
\* entry is deleted.  Returns the secret (or None) and the cache afterwards.
SecretCacheGet(cache, key, t) ==
    IF key \in DOMAIN cache
    THEN IF t - cache[key][2] < SECRET_CACHE_TTL
         THEN [secret |-> cache[key][1], cache |-> cache]
         ELSE [secret |-> None,
               cache |-> [k \in DOMAIN cache \ {key} |-> cache[k]]]
    ELSE [secret |-> None, cache |-> cache]

\* SecretCache.set
SecretCacheSet(cache, key, value, t) ==
    [k \in DOMAIN cache \cup {key} |-> IF k = key THEN <<value, t>> ELSE cache[k]]

-----------------------------------------------------------------------------
(* TenantSecurityValidator *)

\* _validate_timestamp
ValidateTimestamp(timestamp, t) ==
    IF timestamp.fmt = "iso"
    THEN LET d == t - timestamp.t
             age_seconds == IF d < 0 THEN -d ELSE d
         IN  age_seconds <= TIMESTAMP_TOLERANCE_SECONDS
    ELSE FALSE

\* _get_tenant_secret trying the pending version also for an absent tenant
GetTenantSecret_pending_on_notfound(cache, tenant_id, store, t) ==
    LET hit == SecretCacheGet(cache, tenant_id, t)
    IN  IF hit.secret # None
        THEN [secret |-> hit.secret, cache |-> hit.cache, via |-> "cache", calls |-> 0]
        ELSE CASE store \in {"ok", "rotating"} ->
                    [secret |-> StoreSecret(tenant_id, "AWSCURRENT"),
                     cache |-> SecretCacheSet(hit.cache, tenant_id,
                                              StoreSecret(tenant_id, "AWSCURRENT"), t),
                     via |-> "current", calls |-> 1]
               [] store = "notfound" ->
                    [secret |-> StoreSecret(tenant_id, "AWSPENDING"),
                     cache |-> hit.cache, via |-> "pending", calls |-> 2]
               [] store = "pending" ->
                    [secret |-> StoreSecret(tenant_id, "AWSPENDING"),
                     cache |-> hit.cache, via |-> "pending", calls |-> 2]
               [] OTHER ->
                    [secret |-> None, cache |-> hit.cache, via |-> "error", calls |-> 2]

\* _get_tenant_secret.  store is what Secrets Manager answers to this
\* request: "ok" (AWSCURRENT returned), "notfound" (ResourceNotFoundException),
\* "rotating" (AWSCURRENT returned while an AWSPENDING version exists too),
\* "pending" (AWSCURRENT call failed, AWSPENDING returned), "error" (both
\* calls failed).  calls counts the get_secret_value calls made.
GetTenantSecret(cache, tenant_id, store, t) ==
    LET hit == SecretCacheGet(cache, tenant_id, t)
    IN  IF hit.secret # None
        THEN [secret |-> hit.secret, cache |-> hit.cache, via |-> "cache", calls |-> 0]
        ELSE CASE store \in {"ok", "rotating"} ->
                    [secret |-> StoreSecret(tenant_id, "AWSCURRENT"),
                     cache |-> SecretCacheSet(hit.cache, tenant_id,
                                              StoreSecret(tenant_id, "AWSCURRENT"), t),
                     via |-> "current", calls |-> 1]
               [] store = "notfound" ->
                    [secret |-> None, cache |-> hit.cache, via |-> "notfound", calls |-> 1]
               [] store = "pending" ->
                    [secret |-> StoreSecret(tenant_id, "AWSPENDING"),
                     cache |-> hit.cache, via |-> "pending", calls |-> 2]
               [] OTHER ->
                    [secret |-> None, cache |-> hit.cache, via |-> "error", calls |-> 2]

\* _validate_hmac_signature joining timestamp and body with ':' as the
\* ultra-simple handler does
ValidateHmacSignature_colon(timestamp, body, signature, secret) ==
    LET message == Message(timestamp, ":", body)
        expected_signature == HexDigest(secret, message)
    IN  expected_signature = signature

\* _validate_hmac_signature
ValidateHmacSignature(timestamp, body, signature, secret) ==
    LET message == Message(timestamp, "\n", body)
        expected_signature == HexDigest(secret, message)
    IN  expected_signature = signature

\* the cleaning step keeping the entries that are exactly one hour old
PruneFailedAttempts_ge(fa, tenant_id, t) ==
    IF tenant_id \in DOMAIN fa
    THEN [fa EXCEPT ![tenant_id] =
             SelectSeq(fa[tenant_id], LAMBDA x : x >= t - FAILED_ATTEMPT_HORIZON)]
    ELSE fa

\* the cleaning step of _is_rate_limited: entries not newer than one hour go
PruneFailedAttempts(fa, tenant_id, t) ==
    IF tenant_id \in DOMAIN fa
    THEN [fa EXCEPT ![tenant_id] =
             SelectSeq(fa[tenant_id], LAMBDA x : x > t - FAILED_ATTEMPT_HORIZON)]
    ELSE fa

\* _is_rate_limited comparing with > instead of >=
IsRateLimited_gt(fa, tenant_id, t) ==
    IF tenant_id \in DOMAIN fa
    THEN Len(PruneFailedAttempts(fa, tenant_id, t)[tenant_id]) > MAX_FAILED_ATTEMPTS
    ELSE FALSE

\* the verdict of _is_rate_limited, on the cleaned list
IsRateLimited(fa, tenant_id, t) ==
    IF tenant_id \in DOMAIN fa
    THEN Len(PruneFailedAttempts(fa, tenant_id, t)[tenant_id]) >= MAX_FAILED_ATTEMPTS
    ELSE FALSE

\* _record_failed_attempt appending to the list of every tenant it tracks
RecordFailedAttempt_all_tenants(fa, tenant_id, t) ==
    [k \in DOMAIN fa \cup {tenant_id} |->
        Append(IF k \in DOMAIN fa THEN fa[k] ELSE <<>>, t)]

\* _record_failed_attempt assigning [current_time] instead of appending
RecordFailedAttempt_overwrite(fa, tenant_id, t) ==
    [k \in DOMAIN fa \cup {tenant_id} |->
        IF k = tenant_id THEN <<t>> ELSE fa[k]]

\* _record_failed_attempt
RecordFailedAttempt(fa, tenant_id, t) ==
    LET old == IF tenant_id \in DOMAIN fa THEN fa[tenant_id] ELSE <<>>
    IN  [k \in DOMAIN fa \cup {tenant_id} |->
            IF k = tenant_id THEN Append(old, t) ELSE fa[k]]

\* _validation_result together with the state the validator is left in;
\* checks lists the helper methods validate_request called, in call order,
\* and calls counts the get_secret_value calls made
Outcome(success, message, fa, cache, via, checks, calls) ==
    [isAuthorized |-> success, message |-> message, fa |-> fa, cache |-> cache,
     via |-> via, checks |-> checks, calls |-> calls]

\* validate_request resolving the secret before it validates the timestamp
ValidateRequestResult_secret_first(fa, cache, tenant_id, timestamp, signature, body, store, t) ==
    IF tenant_id = None \/ timestamp.fmt = "missing" \/ signature.kind = "missing"
    THEN Outcome(FALSE, "Missing required headers", fa, cache, "none", << >>, 0)
    ELSE
    LET fa1 == PruneFailedAttempts(fa, tenant_id, t)
        c1 == <<"_is_rate_limited">>
        c2 == Append(c1, "_get_tenant_secret")
        c3 == Append(c2, "_validate_timestamp")
        c4 == Append(c3, "_validate_hmac_signature")
    IN  IF IsRateLimited(fa, tenant_id, t)
        THEN Outcome(FALSE, "Rate limit exceeded", fa1, cache, "none", c1, 0)
        ELSE
        LET res == GetTenantSecret(cache, tenant_id, store, t)
        IN  IF res.secret = None
            THEN Outcome(FALSE, "Invalid tenant",
                         RecordFailedAttempt(fa1, tenant_id, t), res.cache, res.via,
                         c2, res.calls)
            ELSE IF ~ValidateTimestamp(timestamp, t)
            THEN Outcome(FALSE, "Invalid timestamp",
                         RecordFailedAttempt(fa1, tenant_id, t), res.cache, res.via,
                         c3, res.calls)
            ELSE IF ~ValidateHmacSignature(timestamp, body, signature, res.secret)
            THEN Outcome(FALSE, "Invalid signature",
                         RecordFailedAttempt(fa1, tenant_id, t), res.cache, res.via,
                         c4, res.calls)
            ELSE Outcome(TRUE, "Valid request", fa1, res.cache, res.via, c4, res.calls)

\* validate_request
ValidateRequestResult(fa, cache, tenant_id, timestamp, signature, body, store, t) ==
    IF tenant_id = None \/ timestamp.fmt = "missing" \/ signature.kind = "missing"
    THEN Outcome(FALSE, "Missing required headers", fa, cache, "none", << >>, 0)
    ELSE
    LET fa1 == PruneFailedAttempts(fa, tenant_id, t)
        c1 == <<"_is_rate_limited">>
        c2 == Append(c1, "_validate_timestamp")
        c3 == Append(c2, "_get_tenant_secret")
        c4 == Append(c3, "_validate_hmac_signature")
    IN  IF IsRateLimited(fa, tenant_id, t)
        THEN Outcome(FALSE, "Rate limit exceeded", fa1, cache, "none", c1, 0)
        ELSE IF ~ValidateTimestamp(timestamp, t)
        THEN Outcome(FALSE, "Invalid timestamp",
                     RecordFailedAttempt(fa1, tenant_id, t), cache, "none", c2, 0)
        ELSE
        LET res == GetTenantSecret(cache, tenant_id, store, t)
        IN  IF res.secret = None
            THEN Outcome(FALSE, "Invalid tenant",
                         RecordFailedAttempt(fa1, tenant_id, t), res.cache, res.via,
                         c3, res.calls)
            ELSE IF ~ValidateHmacSignature(timestamp, body, signature, res.secret)
            THEN Outcome(FALSE, "Invalid signature",
                         RecordFailedAttempt(fa1, tenant_id, t), res.cache, res.via,
                         c4, res.calls)
            ELSE Outcome(TRUE, "Valid request", fa1, res.cache, res.via, c4, res.calls)

\* generate_allow_policy of the HMAC authorizer
GenerateAllowPolicy(tenant_id, t) ==
    [principalId |-> tenant_id, Effect |-> "Allow",
     context |-> [tenant_id |-> tenant_id, validated_at |-> t, auth_method |-> "hmac"]]

\* generate_deny_policy with the statement of generate_allow_policy
GenerateDenyPolicy_allow(reason, t) ==
    [principalId |-> "unauthorized", Effect |-> "Allow",
     context |-> [error |-> reason, timestamp |-> t]]

\* generate_deny_policy of the HMAC authorizer
GenerateDenyPolicy(reason, t) ==
    [principalId |-> "unauthorized", Effect |-> "Deny",
     context |-> [error |-> reason, timestamp |-> t]]

\* lambda_handler of the HMAC authorizer letting the exception of a null
\* header map escape: the invocation ends without a policy
HandlerResult_propagate(fa, cache, tenant_id, timestamp, signature, body, store, t) ==
    LET r == IF tenant_id = NoHeaders
             THEN Outcome(FALSE, "Internal error", fa, cache, "none", << >>, 0)
             ELSE IF tenant_id = None
             THEN Outcome(FALSE, "Missing tenant ID", fa, cache, "none", << >>, 0)
             ELSE ValidateRequestResult(fa, cache, tenant_id, timestamp, signature,
                                        body, store, t)
        policy == IF tenant_id = NoHeaders THEN NoPolicy
                  ELSE IF r.isAuthorized
                  THEN GenerateAllowPolicy(tenant_id, t)
                  ELSE GenerateDenyPolicy(r.message, t)
    IN  [isAuthorized |-> r.isAuthorized, message |-> r.message, fa |-> r.fa,
         cache |-> r.cache, via |-> r.via, checks |-> r.checks, calls |-> r.calls,
         policy |-> policy]

\* lambda_handler of the HMAC authorizer: the validation outcome and the
\* policy returned for it.  headers.get raises on a null header map; the
\* except branch of the handler answers "Internal error".
HandlerResult(fa, cache, tenant_id, timestamp, signature, body, store, t) ==
    LET r == IF tenant_id = NoHeaders
             THEN Outcome(FALSE, "Internal error", fa, cache, "none", << >>, 0)
             ELSE IF tenant_id = None
             THEN Outcome(FALSE, "Missing tenant ID", fa, cache, "none", << >>, 0)
             ELSE ValidateRequestResult(fa, cache, tenant_id, timestamp, signature,
                                        body, store, t)
        policy == IF r.isAuthorized
                  THEN GenerateAllowPolicy(tenant_id, t)
                  ELSE GenerateDenyPolicy(r.message, t)
    IN  [isAuthorized |-> r.isAuthorized, message |-> r.message, fa |-> r.fa,
         cache |-> r.cache, via |-> r.via, checks |-> r.checks, calls |-> r.calls,
         policy |-> policy]

-----------------------------------------------------------------------------
(* MVP API-key authorizer *)

\* the api_key field of the tenant's secret
StoreApiKey(tenant_id) == <<tenant_id, "api_key">>
\* no X-API-Key header
NoApiKey == <<None, None>>

\* validate_tenant_api_key answering True when the store call raises
ValidateTenantApiKey_failopen(tenant_id, provided_api_key, store) ==
    CASE store = "ok" -> StoreApiKey(tenant_id) = provided_api_key
      [] store = "no_api_key" -> FALSE
      [] store = "notfound" -> FALSE
      [] OTHER -> TRUE

\* validate_tenant_api_key.  store is the answer of Secrets Manager: "ok",
\* "no_api_key" (the secret has no api_key field), "notfound", "error".
ValidateTenantApiKey(tenant_id, provided_api_key, store) ==
    CASE store = "ok" -> StoreApiKey(tenant_id) = provided_api_key
      [] store = "no_api_key" -> FALSE
      [] store = "notfound" -> FALSE
      [] OTHER -> FALSE

\* generate_allow_policy of the MVP authorizer
MvpGenerateAllowPolicy(tenant_id, auth_method, t) ==
    [principalId |-> tenant_id, Effect |-> "Allow",
     context |-> [tenant_id |-> tenant_id, auth_method |-> auth_method,
                  authorized_at |-> t]]

\* generate_deny_policy of the MVP authorizer
MvpGenerateDenyPolicy(reason, t) ==
    [principalId |-> "unauthorized", Effect |-> "Deny",
     context |-> [error |-> reason, denied_at |-> t]]

\* lambda_handler of the MVP authorizer: the decision, its message and the
\* policy returned
MvpHandlerResult(tenant_id, api_key, store, t) ==
    IF tenant_id = NoHeaders
    THEN [isAuthorized |-> FALSE, message |-> "Internal error",
          policy |-> MvpGenerateDenyPolicy("Internal error", t)]
    ELSE IF tenant_id = None
    THEN [isAuthorized |-> FALSE, message |-> "Missing tenant ID",
          policy |-> MvpGenerateDenyPolicy("Missing tenant ID", t)]
    ELSE IF api_key = NoApiKey
    THEN [isAuthorized |-> FALSE, message |-> "Missing API key",
          policy |-> MvpGenerateDenyPolicy("Missing API key", t)]
    ELSE IF ValidateTenantApiKey(tenant_id, api_key, store)
    THEN [isAuthorized |-> TRUE, message |-> "api_key",
          policy |-> MvpGenerateAllowPolicy(tenant_id, "api_key", t)]
    ELSE [isAuthorized |-> FALSE, message |-> "Invalid credentials",
          policy |-> MvpGenerateDenyPolicy("Invalid credentials", t)]

-----------------------------------------------------------------------------
(* Ultra-simple form handler *)

\* x-timestamp of the ultra-simple handler: a Unix time as a decimal string
UnixTime(t) == [fmt |-> "unix", t |-> t]

\* validate_hmac
ValidateHmac(signature_header, timestamp, body_str, t) ==
    LET signature == Lower(signature_header) IN
    IF signature.kind = "missing" \/ timestamp.fmt = "missing"
    THEN FALSE
    ELSE IF timestamp.fmt # "unix"
    THEN FALSE
    ELSE
    LET d == t - timestamp.t
        age_seconds == IF d < 0 THEN -d ELSE d
    IN  IF age_seconds > SIMPLE_TIMESTAMP_WINDOW
        THEN FALSE
        ELSE LET message == Message(timestamp, ":", body_str)
                 expected == Lower(HexDigest(HMAC_SECRET, message))
             IN  signature = expected

\* process_submission: the item is stored under the millisecond it arrived
\* in; db = "error" is put_item raising
ProcessSubmission(tbl, body_str, t, ms, db) ==
    IF body_str = "nodata" \/ db = "error"
    THEN [status |-> 500, table |-> tbl]
    ELSE [status |-> 200,
          table |-> [k \in DOMAIN tbl \cup {<<t, ms>>} |->
                        IF k = <<t, ms>> THEN body_str ELSE tbl[k]]]

\* lambda_handler of the ultra-simple handler.  Bodies: "" (empty),
\* "toolarge" (over MAX_PAYLOAD_SIZE), "notjson", "nodata" (JSON without
\* form_data and metadata), anything else is a well-formed submission.
SimpleHandlerResult(tbl, method, signature, timestamp, body_str, t, ms, db) ==
    IF method = "OPTIONS" THEN [status |-> 200, table |-> tbl]
    ELSE IF method # "POST" THEN [status |-> 405, table |-> tbl]
    ELSE IF body_str = "toolarge" THEN [status |-> 413, table |-> tbl]
    ELSE IF body_str = "" THEN [status |-> 400, table |-> tbl]
    ELSE IF body_str = "notjson" THEN [status |-> 400, table |-> tbl]
    ELSE IF ~ValidateHmac(signature, timestamp, body_str, t)
    THEN [status |-> 401, table |-> tbl]
    ELSE ProcessSubmission(tbl, body_str, t, ms, db)

-----------------------------------------------------------------------------
(* WordPress plugin authorizer (wp-plugin-auth/authentication.py) *)

\* the sites registered in the table
SiteIds == {"s_a"}

\* the lengths of the rate limit windows, in seconds
MINUTE_WINDOW == 60
HOUR_WINDOW == 3600
DAY_WINDOW == 86400

\* SUSPICIOUS_PATTERNS
MAX_REQUESTS_PER_SECOND == 20
MAX_FAILED_ATTEMPTS_PER_HOUR == 50

\* The configured limits per window.  RATE_LIMITS of the source configures
\* 100, 2000 and 10000; the values are scaled down so that a few requests
\* exhaust them.
MinuteLimit == 2
HourLimit == 3
DayLimit == 4

\* RATE_LIMITS together with the windows of _check_rate_limits, in the
\* order the windows dict is iterated: <<window_name, seconds, limit>>
RATE_LIMITS ==
    << <<"minute", MINUTE_WINDOW, MinuteLimit>>,
       <<"hour", HOUR_WINDOW, HourLimit>>,
       <<"day", DAY_WINDOW, DayLimit>> >>

\* API keys: the key issued to a site, a key no site was issued, a token
\* of at most 16 characters, and the empty string
SiteApiKey(site_id) == [owner |-> site_id, long |-> TRUE, empty |-> FALSE]
UnknownApiKey == [owner |-> None, long |-> TRUE, empty |-> FALSE]
ShortToken == [owner |-> None, long |-> FALSE, empty |-> FALSE]
NoKey == [owner |-> None, long |-> FALSE, empty |-> TRUE]

\* the authorizationToken of the event: a prefix followed by a key
AuthHeader(prefix, key) == [prefix |-> prefix, key |-> key]
NoAuthHeader == AuthHeader("", NoKey)

\* _extract_api_key
ExtractApiKey(auth_header) ==
    IF auth_header.prefix \in {"Bearer ", "ApiKey ", "X-API-Key "}
    THEN auth_header.key
    ELSE IF auth_header.key.long THEN auth_header.key ELSE NoKey

SiteDomain(site_id) == "site.example"
WebhookSecret(site_id) == <<site_id, "webhook_secret">>

\* what _validate_api_key returns for a key that does not validate
NoSite ==
    [site_id |-> None, domain |-> None, webhook_secret |-> <<None, None>>,
     request_count |-> 0]

\* _validate_api_key.  key_db is what the table answers to the lookups
\* ("ok", or "error" when a call raises), status the status attribute of
\* the site item and counts the request_count attributes of the site items.
ValidateApiKey(api_key, key_db, status, counts) ==
    IF key_db # "ok" THEN NoSite
    ELSE IF api_key.owner \notin SiteIds THEN NoSite
    ELSE IF status # "active" THEN NoSite
    ELSE [site_id |-> api_key.owner, domain |-> SiteDomain(api_key.owner),
          webhook_secret |-> WebhookSecret(api_key.owner),
          request_count |-> counts[api_key.owner]]

\* the items of a scope with TIME#start <= SK <= TIME#end
RecordsBetween(records, site_id, start, end) ==
    {r \in records[site_id] : start <= r /\ r <= end}

\* _check_rate_limits refusing the request when the query raises
CheckRateLimits_failclosed(records, site_id, t, db) ==
    LET count(i) == Cardinality(RecordsBetween(records, site_id,
                                               t - RATE_LIMITS[i][2], t))
        over == {i \in 1..Len(RATE_LIMITS) : count(i) >= RATE_LIMITS[i][3]}
        first == CHOOSE i \in over : \A j \in over : i <= j
    IN  IF db # "up" THEN [allowed |-> FALSE, limit_type |-> "unavailable"]
        ELSE IF over = {} THEN [allowed |-> TRUE, limit_type |-> None]
        ELSE [allowed |-> FALSE, limit_type |-> RATE_LIMITS[first][1]]

\* _check_rate_limits.  db is what the table answers to the queries: "up",
\* or "down" when the query raises.
CheckRateLimits(records, site_id, t, db) ==
    LET count(i) == Cardinality(RecordsBetween(records, site_id,
                                               t - RATE_LIMITS[i][2], t))
        over == {i \in 1..Len(RATE_LIMITS) : count(i) >= RATE_LIMITS[i][3]}
        first == CHOOSE i \in over : \A j \in over : i <= j
    IN  IF db # "up" THEN [allowed |-> TRUE, limit_type |-> None]
        ELSE IF over = {} THEN [allowed |-> TRUE, limit_type |-> None]
        ELSE [allowed |-> FALSE, limit_type |-> RATE_LIMITS[first][1]]

\* _detect_suspicious_activity.  failed is the number of FAILED# items of
\* the site within the last hour.
DetectSuspiciousActivity(records, site_id, failed, t, db) ==
    IF db # "up" THEN FALSE
    ELSE \/ Cardinality(RecordsBetween(records, site_id, t - 1, t))
               > MAX_REQUESTS_PER_SECOND
         \/ failed > MAX_FAILED_ATTEMPTS_PER_HOUR

\* _update_site_activity
UpdateSiteActivity(counts, site_info) ==
    [counts EXCEPT ![site_info.site_id] = @ + 1]

\* _update_rate_limit_counters: put_item under the key TIME#current_time
UpdateRateLimitCounters(records, site_id, t) ==
    [records EXCEPT ![site_id] = @ \cup {t}]

\* _generate_policy
GeneratePolicy(effect, site_info) ==
    LET principalId == IF site_info # NoSite THEN site_info.site_id
                       ELSE "unauthorized"
    IN  IF site_info # NoSite /\ effect = "Allow"
        THEN [principalId |-> principalId, Effect |-> effect,
              context |-> [site_id |-> site_info.site_id,
                           domain |-> site_info.domain,
                           webhook_secret |-> site_info.webhook_secret,
                           request_count |-> site_info.request_count]]
        ELSE [principalId |-> principalId, Effect |-> effect]

\* lambda_handler up to and including _detect_suspicious_activity: either
\* an exception ends the request with a Deny policy, or the request passed
\* every check and the handler goes on to update the table.  cause names
\* the raise statement that ended the request.
WpCheckResult(records, counts, auth_header, key_db, status, failed, t, db) ==
    LET api_key == ExtractApiKey(auth_header)
        site_info == ValidateApiKey(api_key, key_db, status, counts)
        rate == CheckRateLimits(records, site_info.site_id, t, db)
        deny(cause) == [passed |-> FALSE, cause |-> cause, site_info |-> site_info,
                        policy |-> GeneratePolicy("Deny", NoSite)]
    IN  IF auth_header = NoAuthHeader THEN deny("Missing authorization header")
        ELSE IF api_key = NoKey THEN deny("Invalid authorization format")
        ELSE IF site_info = NoSite THEN deny("Invalid API key")
        ELSE IF ~rate.allowed THEN deny(rate.limit_type)
        ELSE IF DetectSuspiciousActivity(records, site_info.site_id, failed, t, db)
        THEN deny("Suspicious activity detected")
        ELSE [passed |-> TRUE, cause |-> "none", site_info |-> site_info,
              policy |-> GeneratePolicy("Allow", site_info)]

-----------------------------------------------------------------------------
(* Clients and the secret store: the inputs of a request *)

OtherBody(body) == CHOOSE b \in Bodies : b # body

\* HMACSignatureHelper.generate_signature, and the ways a client can get the
\* x-signature header wrong
ClientSignature(class, tenant_id, timestamp, body) ==
    LET current == StoreSecret(tenant_id, "AWSCURRENT")
    IN  CASE class = "missing"    -> NoSig
          [] class = "current"    -> HexDigest(current, Message(timestamp, "\n", body))
          [] class = "pending"    -> HexDigest(StoreSecret(tenant_id, "AWSPENDING"),
                                               Message(timestamp, "\n", body))
          [] class = "wrong_key"  -> HexDigest(WrongSecret, Message(timestamp, "\n", body))
          [] class = "other_body" -> HexDigest(current,
                                               Message(timestamp, "\n", OtherBody(body)))
          [] class = "other_ts"   -> HexDigest(current,
                                               Message(IsoTime(timestamp.t - 360), "\n", body))
          [] class = "upper"      -> Upper(HexDigest(current, Message(timestamp, "\n", body)))

Request(tenant_id, timestamp, class, body, store) ==
    [tenant |-> tenant_id, timestamp |-> timestamp, sig |-> class, body |-> body,
     store |-> store]

\* The requests tried at time t: every way of failing a check, and the valid
\* requests.  Inputs a check never reads (the store answer of a request that
\* fails before the secret lookup, ...) are not varied.
Requests(t) ==
    LET fresh == IsoTime(t) IN
    UNION {
      \* no X-Tenant-ID
      {Request(None, fresh, "current", "b1", "ok")},
      UNION {
        \* no, unparseable, too old and too new X-Timestamp
        {Request(tenant_id, ts, "current", "b1", "ok") :
            ts \in {NoTime, BadTime, IsoTime(t - 301), IsoTime(t + 301)}}
        \cup
        \* no X-Signature
        {Request(tenant_id, fresh, "missing", "b1", "ok")}
        \cup
        \* every signature against the current and the pending secret
        {Request(tenant_id, fresh, class, "b1", store) :
            class \in {"current", "pending", "wrong_key", "other_body", "other_ts", "upper"},
            store \in {"ok", "pending"}}
        \cup
        \* tenant absent from the store, store down
        {Request(tenant_id, fresh, "current", "b1", store) : store \in {"notfound", "error"}}
        \cup
        \* during a rotation: signed with the current and with the pending secret
        {Request(tenant_id, fresh, class, "b1", "rotating") :
            class \in {"current", "pending"}}
        \cup
        \* valid requests on the edge of the tolerance, with another body, and
        \* a correctly signed request with an empty body
        {Request(tenant_id, IsoTime(t - 300), "current", "b1", "ok"),
         Request(tenant_id, fresh, "current", "b2", "ok"),
         Request(tenant_id, fresh, "current", "", "ok")}
        : tenant_id \in TenantIds }
    }

\* requests to the MVP authorizer
MvpRequests ==
    {[tenant |-> None, api_key |-> StoreApiKey("t_a"), store |-> "ok"]}
    \cup UNION {
        {[tenant |-> tenant_id, api_key |-> NoApiKey, store |-> "ok"]}
        \cup
        {[tenant |-> tenant_id, api_key |-> key, store |-> store] :
            key \in {StoreApiKey(tenant_id), WrongSecret},
            store \in {"ok", "no_api_key", "notfound", "error"}}
        : tenant_id \in TenantIds }

\* an event of the MVP authorizer whose headers member is null
MvpFaultRequests ==
    {[tenant |-> NoHeaders, api_key |-> NoApiKey, store |-> "ok"]}

\* the x-signature a client of the ultra-simple handler sends:
\* HMAC-SHA256(timestamp + ':' + json_body, secret), and ways to get it wrong
SimpleSignature(class, timestamp, body_str) ==
    CASE class = "missing"    -> NoSig
      [] class = "current"    -> HexDigest(HMAC_SECRET, Message(timestamp, ":", body_str))
      [] class = "upper"      -> Upper(HexDigest(HMAC_SECRET, Message(timestamp, ":", body_str)))
      [] class = "wrong_key"  -> HexDigest(WrongSecret, Message(timestamp, ":", body_str))
      [] class = "other_body" -> HexDigest(HMAC_SECRET,
                                           Message(timestamp, ":", OtherBody(body_str)))
      [] class = "other_ts"   -> HexDigest(HMAC_SECRET,
                                           Message(UnixTime(timestamp.t - 360), ":", body_str))

SimpleRequest(method, timestamp, class, body_str, db) ==
    [method |-> method, timestamp |-> timestamp, sig |-> class, body |-> body_str, db |-> db]

\* requests to the ultra-simple handler at time t
SimpleRequests(t) ==
    LET fresh == UnixTime(t) IN
    {SimpleRequest(method, fresh, "current", "b1", "ok") : method \in {"OPTIONS", "GET"}}
    \cup
    {SimpleRequest("POST", fresh, "current", body_str, "ok") :
        body_str \in {"", "toolarge", "notjson", "nodata"}}
    \cup
    {SimpleRequest("POST", ts, "current", "b1", "ok") :
        ts \in {NoTime, BadTime, UnixTime(t - 301), UnixTime(t + 301), UnixTime(t - 300)}}
    \cup
    {SimpleRequest("POST", fresh, class, "b1", "ok") :
        class \in {"missing", "current", "upper", "wrong_key", "other_body", "other_ts"}}
    \cup
    {SimpleRequest("POST", fresh, "current", "b2", "ok")}
    \cup
    {SimpleRequest("POST", fresh, "current", "b1", "error")}

NoRequest ==
    [handler |-> "none", tenant |-> None, fmt |-> "missing", off |-> 0,
     sig |-> "missing", body |-> "b1", store |-> "ok", via |-> "none",
     message |-> "none",
     allowed |-> FALSE, checks |-> << >>, calls |-> 0, policy |-> NoPolicy]

NoSimpleRequest ==
    [method |-> "none", fmt |-> "missing", off |-> 0, sig |-> "missing",
     body |-> "", key |-> <<0, 0>>, status |-> 0]

-----------------------------------------------------------------------------
(* Actions *)

\* one invocation of lambda_handler of the HMAC authorizer
Authorize(tenant_id, timestamp, class, body, store) ==
    LET signature == ClientSignature(class, tenant_id, timestamp, body)
        r == HandlerResult(failed_attempts, secret_cache, tenant_id, timestamp,
                           signature, body, store, now)
    IN  /\ failed_attempts' = r.fa
        /\ secret_cache' = r.cache
        /\ last' = [handler |-> "hmac", tenant |-> tenant_id,
                    fmt |-> timestamp.fmt, off |-> timestamp.t - now,
                    sig |-> class, body |-> body, store |-> store, via |-> r.via,
                    message |-> r.message, allowed |-> r.isAuthorized,
                    checks |-> r.checks, calls |-> r.calls, policy |-> r.policy]
        /\ UNCHANGED <<now, table, simple_last, wp_vars, ext_vars, reg_vars>>

\* one invocation of lambda_handler of the MVP authorizer
MvpAuthorize(tenant_id, api_key, store) ==
    LET r == MvpHandlerResult(tenant_id, api_key, store, now)
    IN  /\ last' = [handler |-> "mvp", tenant |-> tenant_id,
                    fmt |-> "missing", off |-> 0,
                    sig |-> IF api_key = NoApiKey THEN "missing"
                            ELSE IF tenant_id # None /\ api_key = StoreApiKey(tenant_id)
                                 THEN "current" ELSE "wrong_key",
                    body |-> "b1", store |-> store, via |-> "none",
                    message |-> r.message, allowed |-> r.isAuthorized,
                    checks |-> << >>, calls |-> 0, policy |-> r.policy]
        /\ UNCHANGED <<now, failed_attempts, secret_cache, table, simple_last, wp_vars, ext_vars, reg_vars>>

\* one invocation of lambda_handler of the ultra-simple handler
SimpleHandle(method, timestamp, class, body_str, ms, db) ==
    LET signature == SimpleSignature(class, timestamp, body_str)
        r == SimpleHandlerResult(table, method, signature, timestamp, body_str, now, ms, db)
    IN  /\ table' = r.table
        /\ simple_last' = [method |-> method, fmt |-> timestamp.fmt,
                           off |-> timestamp.t - now, sig |-> class,
                           body |-> body_str, key |-> <<now, ms>>, status |-> r.status]
        /\ UNCHANGED <<now, failed_attempts, secret_cache, last, wp_vars, ext_vars, reg_vars>>

\* the clock advances
Tick(dt) ==
    /\ now + dt <= MaxTime
    /\ now' = now + dt
    /\ UNCHANGED <<failed_attempts, secret_cache, last, table, simple_last, wp_vars, ext_vars, reg_vars>>

-----------------------------------------------------------------------------
(* The WordPress plugin authorizer: requests and steps of its handler *)

\* concurrent invocations of the handler
Procs == {1, 2}

\* the clock of the rate limit windows
RateTimeSteps == {30}
RateMaxTime == 120
\* requests counted per site
MaxCounted == 4

WpRequest(auth_header, key_db, status, db, failed) ==
    [auth_header |-> auth_header, key_db |-> key_db, status |-> status,
     db |-> db, failed |-> failed]

\* requests refused before the rate limit is looked at: no header, a short
\* token, a key no site was issued, a failing key lookup, a suspended site
WpRefusedRequests ==
    {WpRequest(NoAuthHeader, "ok", "active", "up", 0),
     WpRequest(AuthHeader("", ShortToken), "ok", "active", "up", 0),
     WpRequest(AuthHeader("", UnknownApiKey), "ok", "active", "up", 0)}
    \cup UNION {
        {WpRequest(AuthHeader("Bearer ", SiteApiKey(site_id)), "error", "active", "up", 0),
         WpRequest(AuthHeader("Bearer ", SiteApiKey(site_id)), "ok", "suspended", "up", 0)}
        : site_id \in SiteIds }

\* requests with the key of an active site: the table answers or fails the
\* rate limit queries, or holds too many failed attempts of the site
WpRateRequests ==
    UNION {
        {WpRequest(AuthHeader("Bearer ", SiteApiKey(site_id)), "ok", "active", db, 0) :
            db \in {"up", "down"}}
        \cup
        {WpRequest(AuthHeader("Bearer ", SiteApiKey(site_id)), "ok", "active", "up",
                   MAX_FAILED_ATTEMPTS_PER_HOUR + 1)}
        : site_id \in SiteIds }

\* no request has been decided yet
NoWpRequest ==
    [req |-> WpRequest(NoAuthHeader, "ok", "active", "up", 0),
     allowed |-> FALSE, cause |-> "none", policy |-> NoPolicy,
     site_id |-> None, at |-> 0]

IdleProc ==
    [pc |-> "idle", req |-> WpRequest(NoAuthHeader, "ok", "active", "up", 0),
     site_info |-> NoSite]

\* lambda_handler from its start to the end of _detect_suspicious_activity
WpCheck(p, req) ==
    LET r == WpCheckResult(rate_records, request_count, req.auth_header, req.key_db,
                           req.status, req.failed, now, req.db)
    IN  /\ wp_proc[p].pc = "idle"
        /\ \A s \in SiteIds : request_count[s] < MaxCounted
        /\ IF r.passed
           THEN /\ wp_proc' = [wp_proc EXCEPT ![p] =
                                 [pc |-> "checked", req |-> req,
                                  site_info |-> r.site_info]]
                /\ UNCHANGED wp_last
           ELSE /\ wp_last' = [req |-> req, allowed |-> FALSE,
                               cause |-> r.cause, policy |-> r.policy,
                               site_id |-> r.site_info.site_id, at |-> now]
                /\ UNCHANGED wp_proc
        /\ UNCHANGED <<now, failed_attempts, secret_cache, last, table, simple_last,
                       rate_records, request_count, granted, ext_vars, reg_vars>>

\* the rest of lambda_handler: _update_site_activity,
\* _update_rate_limit_counters and the Allow policy
WpCommit(p) ==
    LET site_info == wp_proc[p].site_info
    IN  /\ wp_proc[p].pc = "checked"
        /\ request_count' = UpdateSiteActivity(request_count, site_info)
        /\ rate_records' = UpdateRateLimitCounters(rate_records, site_info.site_id, now)
        /\ granted' = IF wp_proc[p].req.db = "up" THEN Append(granted, now)
                       ELSE granted
        /\ wp_last' = [req |-> wp_proc[p].req, allowed |-> TRUE,
                       cause |-> "none", policy |-> GeneratePolicy("Allow", site_info),
                       site_id |-> site_info.site_id, at |-> now]
        /\ wp_proc' = [wp_proc EXCEPT ![p] = IdleProc]
        /\ UNCHANGED <<now, failed_attempts, secret_cache, last, table, simple_last,
                       ext_vars, reg_vars>>

\* the clock advances by half a minute
RateTick(dt) ==
    /\ now + dt <= RateMaxTime
    /\ now' = now + dt
    /\ UNCHANGED <<failed_attempts, secret_cache, last, table, simple_last,
                   rate_records, request_count, wp_proc, wp_last, granted, ext_vars,
                   reg_vars>>

-----------------------------------------------------------------------------
(* Several instances of the HMAC authorizer *)

\* the module-level validator exists once per instance of the function: the
\* next request is routed to the other instance, whose validator holds its
\* own failed_attempts and its own cache
SwitchInstance ==
    /\ standby' = [fa |-> failed_attempts, cache |-> secret_cache]
    /\ failed_attempts' = standby.fa
    /\ secret_cache' = standby.cache
    /\ UNCHANGED <<now, last, table, simple_last, wp_vars, threads, thread_last,
                   limiter_records, limiter_last, reg_vars>>

\* a request with a wrong signature and a valid request
InstanceRequests(t) ==
    {Request(tenant_id, IsoTime(t), class, "b1", "ok") :
        tenant_id \in TenantIds, class \in {"wrong_key", "current"}}

-----------------------------------------------------------------------------
(* Threads sharing the module-level validator *)

Threads == {1, 2}

IdleThread ==
    [pc |-> "idle", tenant |-> None, timestamp |-> NoTime, secret |-> <<"", "">>]

\* no thread has returned yet
NoDecision == [thread |-> 0, allowed |-> FALSE, message |-> "none"]

\* validate_request returns in thread th
ThreadReturn(th, success, message) ==
    /\ threads' = [threads EXCEPT ![th] = IdleThread]
    /\ thread_last' = [thread |-> th, allowed |-> success, message |-> message]

\* validate_request with a correctly signed request, from its start to the
\* call of SecretCache.get: header check, _is_rate_limited, _validate_timestamp
ThreadStart(th, tenant_id) ==
    LET timestamp == IsoTime(now)
        fa1 == PruneFailedAttempts(failed_attempts, tenant_id, now)
    IN  /\ threads[th].pc = "idle"
        /\ IF IsRateLimited(failed_attempts, tenant_id, now)
           THEN /\ failed_attempts' = fa1
                /\ ThreadReturn(th, FALSE, "Rate limit exceeded")
           ELSE IF ~ValidateTimestamp(timestamp, now)
           THEN /\ failed_attempts' = RecordFailedAttempt(fa1, tenant_id, now)
                /\ ThreadReturn(th, FALSE, "Invalid timestamp")
           ELSE /\ failed_attempts' = fa1
                /\ threads' = [threads EXCEPT ![th] =
                                 [pc |-> "contains", tenant |-> tenant_id,
                                  timestamp |-> timestamp, secret |-> <<"", "">>]]
                /\ UNCHANGED thread_last
        /\ UNCHANGED <<now, secret_cache, last, table, simple_last, wp_vars, standby,
                       limiter_records, limiter_last, reg_vars>>

\* SecretCache.get: if key in self.cache
ThreadCacheContains(th) ==
    /\ threads[th].pc = "contains"
    /\ threads' = [threads EXCEPT ![th].pc =
                      IF threads[th].tenant \in DOMAIN secret_cache
                      THEN "read" ELSE "fetch"]
    /\ UNCHANGED <<now, failed_attempts, secret_cache, last, table, simple_last,
                   wp_vars, standby, thread_last, limiter_records, limiter_last,
                   reg_vars>>

\* SecretCache.get: secret, timestamp = self.cache[key] and the comparison
\* with the TTL.  A KeyError leaves validate_request through its except
\* branch.
ThreadCacheRead(th) ==
    LET key == threads[th].tenant
    IN  /\ threads[th].pc = "read"
        /\ IF key \notin DOMAIN secret_cache
           THEN ThreadReturn(th, FALSE, "Internal validation error")
           ELSE /\ threads' = [threads EXCEPT ![th] =
                    IF now - secret_cache[key][2] < SECRET_CACHE_TTL
                    THEN [@ EXCEPT !.pc = "verify", !.secret = secret_cache[key][1]]
                    ELSE [@ EXCEPT !.pc = "delete"]]
                /\ UNCHANGED thread_last
        /\ UNCHANGED <<now, failed_attempts, secret_cache, last, table, simple_last,
                       wp_vars, standby, limiter_records, limiter_last, reg_vars>>

\* SecretCache.get: del self.cache[key]
ThreadCacheDelete(th) ==
    LET key == threads[th].tenant
    IN  /\ threads[th].pc = "delete"
        /\ IF key \notin DOMAIN secret_cache
           THEN /\ ThreadReturn(th, FALSE, "Internal validation error")
                /\ UNCHANGED secret_cache
           ELSE /\ secret_cache' = [k \in DOMAIN secret_cache \ {key} |-> secret_cache[k]]
                /\ threads' = [threads EXCEPT ![th].pc = "fetch"]
                /\ UNCHANGED thread_last
        /\ UNCHANGED <<now, failed_attempts, last, table, simple_last, wp_vars,
                       standby, limiter_records, limiter_last, reg_vars>>

\* _get_tenant_secret after the cache miss: get_secret_value answers with
\* the current secret, SecretCache.set stores it
ThreadFetch(th) ==
    LET key == threads[th].tenant
        secret == StoreSecret(key, "AWSCURRENT")
    IN  /\ threads[th].pc = "fetch"
        /\ secret_cache' = SecretCacheSet(secret_cache, key, secret, now)
        /\ threads' = [threads EXCEPT ![th] = [@ EXCEPT !.pc = "verify",
                                                         !.secret = secret]]
        /\ UNCHANGED <<now, failed_attempts, last, table, simple_last, wp_vars,
                       standby, thread_last, limiter_records, limiter_last, reg_vars>>

\* _validate_hmac_signature and the result of validate_request
ThreadVerify(th) ==
    LET req == threads[th]
        signature == ClientSignature("current", req.tenant, req.timestamp, "b1")
    IN  /\ threads[th].pc = "verify"
        /\ IF ValidateHmacSignature(req.timestamp, "b1", signature, req.secret)
           THEN /\ ThreadReturn(th, TRUE, "Valid request")
                /\ UNCHANGED failed_attempts
           ELSE /\ ThreadReturn(th, FALSE, "Invalid signature")
                /\ failed_attempts' = RecordFailedAttempt(failed_attempts, req.tenant, now)
        /\ UNCHANGED <<now, secret_cache, last, table, simple_last, wp_vars, standby,
                       limiter_records, limiter_last, reg_vars>>

-----------------------------------------------------------------------------
(* RateLimiter of shared_utils *)

\* the identifiers (site, tenant, address) whose requests are counted
Identifiers == {"t_a", "t_b"}

\* time_windows.get(window_name, 3600)
WindowSeconds(window_name) ==
    CASE window_name = "minute" -> 60
      [] window_name = "hour"   -> 3600
      [] window_name = "day"    -> 86400
      [] window_name = "week"   -> 604800
      [] window_name = "month"  -> 2592000
      [] OTHER                  -> 3600

\* the result of check_rate_limit when no limit is reached
LimiterAllowed ==
    [allowed |-> TRUE, limit_type |-> None, current_count |-> 0, limit |-> 0,
     reset_time |-> 0]

\* RateLimiter.check_rate_limit.  limits lists the entries of the limits
\* dict in the order limits.items() yields them, which is the order the
\* caller wrote them in.
CheckRateLimit(records, identifier, limits, t, db) ==
    LET window_seconds(i) == WindowSeconds(limits[i][1])
        count(i) == Cardinality(RecordsBetween(records, identifier,
                                               t - window_seconds(i), t))
        over == {i \in 1..Len(limits) : count(i) >= limits[i][2]}
        first == CHOOSE i \in over : \A j \in over : i <= j
    IN  IF db # "up" \/ over = {} THEN LimiterAllowed
        ELSE [allowed |-> FALSE, limit_type |-> limits[first][1],
              current_count |-> count(first), limit |-> limits[first][2],
              reset_time |-> t + (window_seconds(first) - (t % window_seconds(first)))]

\* RateLimiter.increment_rate_limit: put_item under TIME#current_time; a
\* failing put_item is logged and ignored
IncrementRateLimit(records, identifier, t, db) ==
    IF db # "up" THEN records
    ELSE [records EXCEPT ![identifier] = @ \cup {t}]

\* limits dicts a caller passes: the windows in ascending and in descending
\* order of their size
AscendingLimits ==
    << <<"minute", MinuteLimit>>, <<"hour", HourLimit>>, <<"day", DayLimit>> >>
DescendingLimits ==
    << <<"day", DayLimit>>, <<"hour", HourLimit>>, <<"minute", MinuteLimit>> >>

\* a limits dict that one request per minute exhausts
IsolationLimit == 1
IsolationLimits == << <<"minute", IsolationLimit>> >>

\* no check has been made yet
NoCheck ==
    [identifier |-> None, limits |-> << >>, db |-> "up", result |-> LimiterAllowed]

\* one call of check_rate_limit
LimiterCheck(identifier, limits, db) ==
    /\ limiter_last' = [identifier |-> identifier, limits |-> limits, db |-> db,
                        result |-> CheckRateLimit(limiter_records, identifier,
                                                  limits, now, db)]
    /\ UNCHANGED <<now, failed_attempts, secret_cache, last, table, simple_last,
                   wp_vars, standby, threads, thread_last, limiter_records, reg_vars>>

\* one call of increment_rate_limit
LimiterIncrement(identifier, db) ==
    /\ limiter_records' = IncrementRateLimit(limiter_records, identifier, now, db)
    /\ UNCHANGED <<now, failed_attempts, secret_cache, last, table, simple_last,
                   wp_vars, standby, threads, thread_last, limiter_last, reg_vars>>

\* requests of two tenants to the HMAC authorizer: wrong and correct signature
IsolationRequests(t) ==
    {Request(tenant_id, IsoTime(t), class, "b1", "ok") :
        tenant_id \in Identifiers, class \in {"wrong_key", "current"}}

-----------------------------------------------------------------------------
(* WordPressSecurityManager: rate limit per site and per source address *)

\* a request that carries no source address
NoIp == "None"

\* how many requests one hour bucket is followed for
SecMaxCount == 52

\* self.rate_limits.get(name, self.rate_limits['default'])
SecRateLimit(name) ==
    CASE name = "default"       -> 100
      [] name = "premium"       -> 1000
      [] name = "burst"         -> 150
      [] name = "auth_failures" -> 10
      [] OTHER                  -> 100

\* the address limit taken as twice the site limit, without the cap
IpLimit_double(rate_limit) == rate_limit * 2

\* ip_limit = min(rate_limit * 0.5, 50); every configured limit is even
IpLimit(rate_limit) ==
    IF rate_limit \div 2 < 50 THEN rate_limit \div 2 ELSE 50

\* _increment_rate_counter: the counter after the ADD and the value
\* returned; 1 is returned, and nothing added, when update_item raises
IncrementRateCounter(count, db) ==
    IF db = "up" THEN [count |-> count + 1, returned |-> count + 1]
    ELSE [count |-> count, returned |-> 1]

\* _check_enhanced_rate_limit.  tier and failed_attempts are what the site
\* item holds; db = "down" makes every table call of the request raise.
CheckEnhancedRateLimit(counts, tier, failures, client_ip, db) ==
    LET site == IncrementRateCounter(counts.site, db)
        tier_read == IF db = "up" THEN tier ELSE "standard"
        failed_read == IF db = "up" THEN failures ELSE 0
        rate_limit == IF failed_read > 5 THEN SecRateLimit("auth_failures")
                      ELSE SecRateLimit(tier_read)
        ip == IncrementRateCounter(counts.ip, db)
        ip_limit == IpLimit(rate_limit)
    IN  IF site.returned > rate_limit
        THEN [allowed |-> FALSE, counts |-> [site |-> site.count, ip |-> counts.ip],
              rate_limit |-> rate_limit, ip_limit |-> ip_limit,
              site_count |-> site.returned, ip_count |-> 0]
        ELSE IF client_ip = NoIp
        THEN [allowed |-> TRUE, counts |-> [site |-> site.count, ip |-> counts.ip],
              rate_limit |-> rate_limit, ip_limit |-> ip_limit,
              site_count |-> site.returned, ip_count |-> 0]
        ELSE [allowed |-> ip.returned <= ip_limit,
              counts |-> [site |-> site.count, ip |-> ip.count],
              rate_limit |-> rate_limit, ip_limit |-> ip_limit,
              site_count |-> site.returned, ip_count |-> ip.returned]

\* no check has been made yet
NoSecCheck ==
    [tier |-> "standard", failed_attempts |-> 0, client_ip |-> NoIp, db |-> "up",
     allowed |-> FALSE, rate_limit |-> 0, ip_limit |-> 0, site_count |-> 0,
     ip_count |-> 0]

\* one call of _check_enhanced_rate_limit from validate_secure_credentials
SecCheck(tier, failures, client_ip, db) ==
    LET r == CheckEnhancedRateLimit(sec_counts, tier, failures, client_ip, db)
    IN  /\ sec_counts.site < SecMaxCount
        /\ sec_counts' = r.counts
        /\ sec_last' = [tier |-> tier, failed_attempts |-> failures,
                        client_ip |-> client_ip, db |-> db, allowed |-> r.allowed,
                        rate_limit |-> r.rate_limit, ip_limit |-> r.ip_limit,
                        site_count |-> r.site_count, ip_count |-> r.ip_count]
        /\ UNCHANGED <<now, failed_attempts, secret_cache, last, table, simple_last,
                       wp_vars, ext_vars, reg_table, kx_proc, reg_last>>

-----------------------------------------------------------------------------
(* Registration and key exchange of the WordPress plugin *)

RATE_LIMIT_WINDOW == 300
MAX_REGISTRATIONS_PER_IP == 3
TEMP_KEY_EXPIRY == 3600

\* the seconds at which requests arrive: three seconds of one rate limit
\* window, then the last second of the temp key issued at 0 and the two
\* seconds after it
RegTimes == {0, 1, 2, TEMP_KEY_EXPIRY, TEMP_KEY_EXPIRY + 1, TEMP_KEY_EXPIRY + 2}
MaxRegistrations == 2        \* registration records followed for the domain
MaxIssued == 2               \* credentials generated for the domain

\* _generate_temp_key for the i-th registration record: no two are equal
TempKey(i) == <<"temp", i>>

\* body.get('temp_key', '') of a request without a temp_key
MissingTempKey == << >>

\* a temp key that no registration was given
UnknownTempKey == <<"temp", 0>>

\* the items of the domain (SITE#domain: REG# records in the order of their
\* uuid7 and CREDS# items), the RATE#client_ip items of the address, and
\* how many site ids have been generated
EmptyRegTable == [regs |-> << >>, creds |-> {}, rate |-> {}, issued |-> 0]

\* an invocation of the key exchange that is not running
IdleExchange == [pc |-> "idle", reg |-> 0, site_id |-> 0]

\* no response has been returned yet
NoResponse ==
    [handler |-> "none", request |-> "none", status |-> 0, code |-> "none",
     temp_key |-> MissingTempKey, registration_id |-> 0, site_id |-> 0,
     db |-> "up"]

\* _error_response
RegErrorResponse(handler, request, temp_key, status, code) ==
    [handler |-> handler, request |-> request, status |-> status, code |-> code,
     temp_key |-> temp_key, registration_id |-> 0, site_id |-> 0, db |-> "up"]

\* initial_registration._is_expired(created_at, expiry_seconds)
IsExpiredSince(created_at, expiry_seconds, t) == t - created_at > expiry_seconds

\* key_exchange._is_expired(expires_at)
IsExpired(expires_at, t) == t > expires_at

\* _check_rate_limit(client_ip)['allowed'] while the table answers
RegRateAllowed(rate, t) ==
    Cardinality({r \in rate : t - RATE_LIMIT_WINDOW <= r /\ r <= t})
        < MAX_REGISTRATIONS_PER_IP

\* _check_existing_registration: the position of the last item of the
\* partition SITE#domain, 0 for None.  "REG#" sorts after "CREDS#", so the
\* last item is the registration record with the largest uuid7.
CheckExistingRegistration(regs) == Len(regs)

\* the record lambda_handler stores for a new registration
RegistrationRecord(i, t) ==
    [registration_id |-> i, temp_key |-> TempKey(i), status |-> "pending",
     created_at |-> t, expires_at |-> t + TEMP_KEY_EXPIRY]

\* item[name]: a KeyError for an attribute the item does not have
HasAttribute(item, name) == name \in DOMAIN item

\* initial_registration.lambda_handler for the domain: the response and the
\* table after it.  db = "down" makes every table call raise.
RegistrationResult(tbl, body, t, db) ==
    LET existing == IF db = "up" THEN CheckExistingRegistration(tbl.regs) ELSE 0
        i == Len(tbl.regs) + 1
        Err(status, code) ==
            [response |-> RegErrorResponse("registration", body, MissingTempKey,
                                           status, code),
             table |-> tbl]
    IN  IF body = "invalid_json" THEN Err(400, "INVALID_JSON")
        ELSE IF body = "missing_fields" THEN Err(400, "MISSING_FIELDS")
        ELSE IF body = "invalid_domain" THEN Err(400, "INVALID_DOMAIN")
        ELSE IF db = "up" /\ ~RegRateAllowed(tbl.rate, t) THEN Err(429, "RATE_LIMITED")
        ELSE IF existing # 0 /\ tbl.regs[existing].status = "active"
        THEN Err(409, "ALREADY_REGISTERED")
        ELSE IF /\ existing # 0
                /\ tbl.regs[existing].status = "pending"
                /\ ~IsExpiredSince(tbl.regs[existing].created_at, TEMP_KEY_EXPIRY, t)
        THEN IF /\ HasAttribute(tbl.regs[existing], "temp_key")
                /\ HasAttribute(tbl.regs[existing], "expires_in")
                /\ HasAttribute(tbl.regs[existing], "registration_id")
             THEN [response |->
                      [handler |-> "registration", request |-> body, status |-> 200,
                       code |-> "OK", temp_key |-> tbl.regs[existing].temp_key,
                       registration_id |-> tbl.regs[existing].registration_id,
                       site_id |-> 0, db |-> db],
                   table |-> tbl]
             ELSE Err(500, "INTERNAL_ERROR")
        ELSE IF db = "down" THEN Err(500, "INTERNAL_ERROR")
        ELSE [response |->
                 [handler |-> "registration", request |-> body, status |-> 200,
                  code |-> "OK", temp_key |-> TempKey(i), registration_id |-> i,
                  site_id |-> 0, db |-> db],
              table |-> [tbl EXCEPT !.regs = Append(@, RegistrationRecord(i, t)),
                                    !.rate = @ \cup {t}]]

RegistrationBodies == {"valid", "invalid_json", "missing_fields", "invalid_domain"}

reg_frame ==
    <<failed_attempts, secret_cache, last, table, simple_last, wp_vars, ext_vars,
      sec_counts, sec_last>>

\* one request to initial_registration.lambda_handler for the domain
Register(body, db) ==
    LET r == RegistrationResult(reg_table, body, now, db)
    IN  /\ Len(r.table.regs) <= MaxRegistrations
        /\ reg_table' = r.table
        /\ reg_last' = [r.response EXCEPT !.db = db]
        /\ UNCHANGED <<now, kx_proc>>
        /\ UNCHANGED reg_frame

\* a registration of a domain not registered before, from the same address:
\* of what is followed here it touches only the RATE#client_ip items
RegisterOtherDomain ==
    /\ reg_table' = IF RegRateAllowed(reg_table.rate, now)
                    THEN [reg_table EXCEPT !.rate = @ \cup {now}]
                    ELSE reg_table
    /\ reg_last' = IF RegRateAllowed(reg_table.rate, now)
                   THEN [handler |-> "registration", request |-> "other_domain",
                         status |-> 200, code |-> "OK", temp_key |-> UnknownTempKey,
                         registration_id |-> 0, site_id |-> 0, db |-> "up"]
                   ELSE RegErrorResponse("registration", "other_domain",
                                         MissingTempKey, 429, "RATE_LIMITED")
    /\ UNCHANGED <<now, kx_proc>>
    /\ UNCHANGED reg_frame

\* the clock advances; the RATE#client_ip items whose ttl (their second
\* plus RATE_LIMIT_WINDOW) has passed are gone, as no query reads them again
RegTick(t) ==
    /\ t > now
    /\ now' = t
    /\ reg_table' = [reg_table EXCEPT
                        !.rate = {r \in @ : r + RATE_LIMIT_WINDOW >= t}]
    /\ UNCHANGED <<kx_proc, reg_last>>
    /\ UNCHANGED reg_frame

\* _get_registration_by_temp_key: the position of the record with the temp
\* key, 0 for None (no such record, the key expired, or the query raised)
GetRegistrationByTempKey(regs, temp_key, t, db) ==
    LET found == {i \in 1..Len(regs) : regs[i].temp_key = temp_key}
    IN  IF db = "down" \/ found = {} THEN 0
        ELSE LET i == CHOOSE j \in found : TRUE
             IN  IF IsExpired(regs[i].expires_at, t) THEN 0 ELSE i

\* the invocation returns its response; db tells whether the table answered
KxRespond(p, response, db) ==
    /\ reg_last' = [response EXCEPT !.db = db]
    /\ kx_proc' = [kx_proc EXCEPT ![p] = IdleExchange]

\* key_exchange.lambda_handler up to the status check (lines 51-72)
KxStart(p, temp_key, db) ==
    LET reg == GetRegistrationByTempKey(reg_table.regs, temp_key, now, db)
        Err(status, code) ==
            KxRespond(p, RegErrorResponse("key_exchange", "start", temp_key,
                                          status, code), db)
    IN  /\ kx_proc[p].pc = "idle"
        /\ IF temp_key = MissingTempKey THEN Err(400, "MISSING_TEMP_KEY")
           ELSE IF reg = 0 THEN Err(404, "INVALID_TEMP_KEY")
           ELSE IF reg_table.regs[reg].status = "active" THEN Err(409, "ALREADY_ACTIVE")
           ELSE /\ kx_proc' = [kx_proc EXCEPT ![p] =
                                  [pc |-> "verifying", reg |-> reg, site_id |-> 0]]
                /\ reg_last' = reg_last
        /\ UNCHANGED <<now, reg_table>>
        /\ UNCHANGED reg_frame

\* _verify_site_ownership, whose answer comes from the site, and
\* _generate_site_credentials with a site id no other call generates
KxVerify(p, verified) ==
    /\ kx_proc[p].pc = "verifying"
    /\ IF ~verified
       THEN /\ KxRespond(p, RegErrorResponse("key_exchange", "verify",
                                             TempKey(kx_proc[p].reg), 403,
                                             "VERIFICATION_FAILED"), "up")
            /\ reg_table' = reg_table
       ELSE /\ reg_table.issued < MaxIssued
            /\ reg_table' = [reg_table EXCEPT !.issued = @ + 1]
            /\ kx_proc' = [kx_proc EXCEPT ![p] =
                              [@ EXCEPT !.pc = "generated",
                                        !.site_id = reg_table.issued + 1]]
            /\ reg_last' = reg_last
    /\ UNCHANGED now
    /\ UNCHANGED reg_frame

\* _activate_registration: update_item on the key of the record read at the
\* start, with no condition on its status
KxActivate(p, db) ==
    /\ kx_proc[p].pc = "generated"
    /\ IF db = "down"
       THEN /\ KxRespond(p, RegErrorResponse("key_exchange", "activate",
                                             TempKey(kx_proc[p].reg), 500,
                                             "INTERNAL_ERROR"), db)
            /\ reg_table' = reg_table
       ELSE /\ reg_table' = [reg_table EXCEPT !.regs[kx_proc[p].reg] =
                                [status |-> "active", site_id |-> kx_proc[p].site_id]
                                    @@ @]
            /\ kx_proc' = [kx_proc EXCEPT ![p].pc = "activated"]
            /\ reg_last' = reg_last
    /\ UNCHANGED now
    /\ UNCHANGED reg_frame

\* _store_site_credentials and the response with the credentials
KxStore(p, db) ==
    /\ kx_proc[p].pc = "activated"
    /\ IF db = "down"
       THEN /\ KxRespond(p, RegErrorResponse("key_exchange", "store",
                                             TempKey(kx_proc[p].reg), 500,
                                             "INTERNAL_ERROR"), db)
            /\ reg_table' = reg_table
       ELSE /\ reg_table' = [reg_table EXCEPT !.creds = @ \cup
                                {[site_id |-> kx_proc[p].site_id,
                                  registration_id |-> kx_proc[p].reg]}]
            /\ KxRespond(p, [handler |-> "key_exchange", request |-> "store",
                             status |-> 200, code |-> "OK",
                             temp_key |-> TempKey(kx_proc[p].reg),
                             registration_id |-> kx_proc[p].reg,
                             site_id |-> kx_proc[p].site_id, db |-> db], db)
    /\ UNCHANGED now
    /\ UNCHANGED reg_frame

EmptyMap == [k \in {} |-> <<>>]

Init ==
    /\ now = 0
    /\ failed_attempts = EmptyMap
    /\ secret_cache = EmptyMap
    /\ last = NoRequest
    /\ table = EmptyMap
    /\ simple_last = NoSimpleRequest
    /\ rate_records = [s \in SiteIds |-> {}]
    /\ request_count = [s \in SiteIds |-> 0]
    /\ wp_proc = [p \in Procs |-> IdleProc]
    /\ wp_last = NoWpRequest
    /\ granted = << >>
    /\ standby = [fa |-> EmptyMap, cache |-> EmptyMap]
    /\ threads = [th \in Threads |-> IdleThread]
    /\ thread_last = NoDecision
    /\ limiter_records = [id \in Identifiers |-> {}]
    /\ limiter_last = NoCheck
    /\ sec_counts = [site |-> 0, ip |-> 0]
    /\ sec_last = NoSecCheck
    /\ reg_table = EmptyRegTable
    /\ kx_proc = [p \in Procs |-> IdleExchange]
    /\ reg_last = NoResponse

Next ==
    \/ \E req \in Requests(now) :
          Authorize(req.tenant, req.timestamp, req.sig, req.body, req.store)
    \/ \E req \in MvpRequests : MvpAuthorize(req.tenant, req.api_key, req.store)
    \/ \E dt \in TimeSteps : Tick(dt)

Spec == Init /\ [][Next]_vars

\* the ultra-simple handler on its own
NextSimple ==
    \/ \E req \in SimpleRequests(now), ms \in Millis :
          SimpleHandle(req.method, req.timestamp, req.sig, req.body, ms, req.db)
    \/ \E dt \in TimeSteps : Tick(dt)

SpecSimple == Init /\ [][NextSimple]_vars

\* the WordPress plugin authorizer on its own, two invocations interleaved
NextRate ==
    \/ \E p \in Procs, req \in WpRateRequests : WpCheck(p, req)
    \/ \E p \in Procs : WpCommit(p)
    \/ \E dt \in RateTimeSteps : RateTick(dt)

SpecRate == Init /\ [][NextRate]_vars

\* bounds of the clock that brings a cache entry to one second before its
\* TTL and to the TTL
CacheMaxTime == 300
CacheTimeSteps == {299, 300}

\* the clock advances to the next instant of interest
CacheTick(dt) ==
    /\ now + dt <= CacheMaxTime
    /\ now' = now + dt
    /\ UNCHANGED <<failed_attempts, secret_cache, last, table, simple_last, wp_vars, ext_vars, reg_vars>>

\* correctly signed requests, answered by the store or not
CacheRequests(t) ==
    {Request(tenant_id, IsoTime(t), "current", "b1", store) :
        tenant_id \in TenantIds, store \in {"ok", "error"}}

\* the HMAC authorizer serving valid requests while its cache entries age
NextCache ==
    \/ \E req \in CacheRequests(now) :
          Authorize(req.tenant, req.timestamp, req.sig, req.body, req.store)
    \/ \E dt \in CacheTimeSteps : CacheTick(dt)

SpecCache == Init /\ [][NextCache]_vars

\* two instances of the HMAC authorizer serving one tenant at one instant
NextInstances ==
    \/ \E req \in InstanceRequests(now) :
          Authorize(req.tenant, req.timestamp, req.sig, req.body, req.store)
    \/ SwitchInstance

SpecInstances == Init /\ [][NextInstances]_vars

\* two threads validating correctly signed requests on one validator while
\* the cache entry ages
NextThreads ==
    \/ \E th \in Threads, tenant_id \in TenantIds : ThreadStart(th, tenant_id)
    \/ \E th \in Threads : ThreadCacheContains(th)
    \/ \E th \in Threads : ThreadCacheRead(th)
    \/ \E th \in Threads : ThreadCacheDelete(th)
    \/ \E th \in Threads : ThreadFetch(th)
    \/ \E th \in Threads : ThreadVerify(th)
    \/ \E dt \in CacheTimeSteps : CacheTick(dt)

SpecThreads == Init /\ [][NextThreads]_vars

\* RateLimiter counting the requests of one identifier over two minutes
NextLimiter ==
    \/ \E limits \in {AscendingLimits, DescendingLimits}, db \in {"up", "down"} :
          LimiterCheck("t_a", limits, db)
    \/ \E db \in {"up", "down"} : LimiterIncrement("t_a", db)
    \/ \E dt \in RateTimeSteps : RateTick(dt)

SpecLimiter == Init /\ [][NextLimiter]_vars

\* two tenants at one instant: the HMAC authorizer with its failure
\* tracking, and RateLimiter with one identifier per tenant
NextIsolation ==
    \/ \E req \in IsolationRequests(now) :
          Authorize(req.tenant, req.timestamp, req.sig, req.body, req.store)
    \/ \E identifier \in Identifiers : LimiterCheck(identifier, IsolationLimits, "up")
    \/ \E identifier \in Identifiers : LimiterIncrement(identifier, "up")

SpecIsolation == Init /\ [][NextIsolation]_vars

\* the documented rate limiter within one hour bucket: requests with and
\* without a source address, for each tier and failure status
NextSecurity ==
    \E tier \in {"standard", "premium", "burst"}, failures \in {0, 6},
       client_ip \in {"ip_1", NoIp}, db \in {"up", "down"} :
          SecCheck(tier, failures, client_ip, db)

SpecSecurity == Init /\ [][NextSecurity]_vars

\* the temp keys a key exchange is called with
ExchangeKeys ==
    {TempKey(i) : i \in 1..Len(reg_table.regs)} \cup {MissingTempKey, UnknownTempKey}

\* registrations of the domain, from an address that also registers other
\* domains, and key exchanges one at a time
NextRegistration ==
    \/ \E body \in RegistrationBodies, db \in {"up", "down"} : Register(body, db)
    \/ RegisterOtherDomain
    \/ \E t \in RegTimes : RegTick(t)
    \/ \E temp_key \in ExchangeKeys : KxStart(1, temp_key, "up")
    \/ KxVerify(1, TRUE)
    \/ KxActivate(1, "up")
    \/ KxStore(1, "up")

SpecRegistration == Init /\ [][NextRegistration]_vars

\* concurrent invocations of the key exchange for one registration of the
\* domain, before and after its temp key expires
NextExchange ==
    \/ reg_table.regs = << >> /\ Register("valid", "up")
    \/ RegTick(TEMP_KEY_EXPIRY + 1)
    \/ \E p \in Procs, db \in {"up", "down"} :
          \E temp_key \in ExchangeKeys : KxStart(p, temp_key, db)
    \/ \E p \in Procs, verified \in BOOLEAN : KxVerify(p, verified)
    \/ \E p \in Procs, db \in {"up", "down"} : KxActivate(p, db)
    \/ \E p \in Procs, db \in {"up", "down"} : KxStore(p, db)

SpecExchange == Init /\ [][NextExchange]_vars

\* requests to the HMAC authorizer that get each kind of policy: denied by
\* lambda_handler, denied by validate_request, and allowed
PolicyRequests(t) ==
    {Request(None, IsoTime(t), "current", "b1", "ok"),
     Request(NoHeaders, NoTime, "missing", "b1", "ok")}
    \cup UNION {
        {Request(tenant_id, IsoTime(t), class, "b1", "ok") :
            class \in {"current", "missing"}}
        : tenant_id \in TenantIds }

\* the three authorizers side by side, at one instant, one invocation of
\* each at a time
NextAuthorizers ==
    \/ \E req \in PolicyRequests(now) :
          Authorize(req.tenant, req.timestamp, req.sig, req.body, req.store)
    \/ \E req \in MvpRequests \cup MvpFaultRequests :
          MvpAuthorize(req.tenant, req.api_key, req.store)
    \/ \E req \in WpRefusedRequests \cup WpRateRequests : WpCheck(1, req)
    \/ WpCommit(1)

SpecAuthorizers == Init /\ [][NextAuthorizers]_vars

-----------------------------------------------------------------------------
(* Vocabulary of the properties *)

\* failures of a tenant recorded in fa that are less than one hour old at time t
RecentFailuresIn(fa, tenant_id, t) ==
    IF tenant_id \in DOMAIN fa
    THEN Cardinality({i \in 1..Len(fa[tenant_id]) :
                         fa[tenant_id][i] > t - FAILED_ATTEMPT_HORIZON})
    ELSE 0

RecentFailures(tenant_id) == RecentFailuresIn(failed_attempts, tenant_id, now)

\* the scope is locked out: the failure threshold is reached within the hour
LockedOut(tenant_id) == RecentFailures(tenant_id) >= MAX_FAILED_ATTEMPTS

\* the step is an invocation of the HMAC authorizer; last' describes it
HmacStep == now' = now /\ last'.handler = "hmac"
MvpStep == now' = now /\ last'.handler = "mvp"

\* the request carried all of X-Tenant-ID, X-Timestamp and X-Signature
HeadersPresent(req) ==
    req.tenant # None /\ req.fmt # "missing" /\ req.sig # "missing"

\* the cache holds a secret for the tenant that is younger than the TTL
FreshCached(tenant_id) ==
    /\ tenant_id \in DOMAIN secret_cache
    /\ now - secret_cache[tenant_id][2] < SECRET_CACHE_TTL

\* the version stage of the secret that resolves for a request of the tenant
\* when the store answers as given; "none" if no secret can be obtained
ResolvedStage(tenant_id, store) ==
    IF FreshCached(tenant_id) THEN "AWSCURRENT"
    ELSE IF store \in {"ok", "rotating"} THEN "AWSCURRENT"
    ELSE IF store = "pending" THEN "AWSPENDING"
    ELSE "none"

\* the signature of the request is hex(HMAC-SHA256(secret of that stage,
\* timestamp + newline + body)) of the timestamp and body it presents
SignedWith(req, stage) ==
    \/ stage = "AWSCURRENT" /\ req.sig = "current"
    \/ stage = "AWSPENDING" /\ req.sig = "pending"

Abs(x) == IF x < 0 THEN -x ELSE x

ClientFailures == {"Invalid timestamp", "Invalid tenant", "Invalid signature"}

-----------------------------------------------------------------------------
(* C1 *)

\* C1: while a tenant is locked out (its failures within the hour have
\* reached the threshold) no request for it is allowed, whatever its
\* timestamp and signature.
C1_LockoutDenies ==
    [][ (HmacStep /\ last'.tenant # None /\ LockedOut(last'.tenant))
            => ~last'.allowed ]_vars

\* a correctly signed, fresh request was denied because the tenant is locked
C1_Witness ==
    /\ last.handler = "hmac" /\ last.sig = "current" /\ last.fmt = "iso"
    /\ last.off = 0 /\ last.store = "ok"
    /\ LockedOut(last.tenant)
    /\ last.message = "Rate limit exceeded"

-----------------------------------------------------------------------------
(* C2 *)

-----------------------------------------------------------------------------
(* C3 *)

\* C3: every allow decision was given to a signature that equals the HMAC of
\* the timestamp and body presented in the same request under the secret
\* resolved for the request; any other signature value is denied.  For the
\* ultra-simple handler: every accepted POST carried exactly the lower-case
\* hex digest of its own timestamp and body.
C3_AllowImpliesExactSignature ==
    /\ (last.handler = "hmac" /\ last.allowed) =>
          \/ last.via \in {"cache", "current"} /\ last.sig = "current"
          \/ last.via = "pending" /\ last.sig = "pending"
    /\ (simple_last.method = "POST" /\ simple_last.status \in {200, 500}
        /\ simple_last.body \in Bodies) =>
          simple_last.sig = "current"

-----------------------------------------------------------------------------
(* C4 *)

\* C4: the timestamp check accepts exactly the timestamps whose distance
\* from the time of verification is strictly below the tolerance; a distance
\* of exactly 300 s is rejected.
C4_StrictTolerance ==
    (/\ last.handler = "hmac"
     /\ HeadersPresent(last)
     /\ last.message # "Rate limit exceeded")
        => (last.message # "Invalid timestamp"
              <=> (last.fmt = "iso" /\ Abs(last.off) < TIMESTAMP_TOLERANCE_SECONDS))

-----------------------------------------------------------------------------
(* C5 *)

\* C5: of two requests with the same (tenant_id, timestamp, signature), the
\* second is denied when the first was allowed: no tuple is allowed twice.
C5_NoTupleAllowedTwice ==
    [][ (/\ HmacStep
         /\ last.handler = "hmac" /\ last.allowed
         /\ last'.tenant = last.tenant
         /\ last'.fmt = last.fmt /\ last'.off = last.off
         /\ last'.sig = last.sig /\ last'.body = last.body)
            => ~last'.allowed ]_vars

-----------------------------------------------------------------------------
(* C6 *)

-----------------------------------------------------------------------------
(* C7 *)

\* C7: once a lockout was triggered (the list holds 10 failures, the last of
\* them being the one that triggered it) and 15 minutes have passed since,
\* with no further failure, a valid request is allowed.
C7_AllowedAfterLockoutDuration ==
    [][ (/\ HmacStep
         /\ HeadersPresent(last')
         /\ last'.tenant \in DOMAIN failed_attempts
         /\ Len(failed_attempts[last'.tenant]) >= MAX_FAILED_ATTEMPTS
         /\ now >= failed_attempts[last'.tenant][Len(failed_attempts[last'.tenant])]
                      + LOCKOUT_DURATION_SECONDS
         /\ last'.fmt = "iso"
         /\ Abs(last'.off) < TIMESTAMP_TOLERANCE_SECONDS
         /\ SignedWith(last', ResolvedStage(last'.tenant, last'.store)))
            => last'.allowed ]_vars

-----------------------------------------------------------------------------
(* C8 *)

\* C8: after a successful validation the tenant's failure count is zero.
C8_SuccessResetsFailures ==
    [][ (HmacStep /\ last'.allowed)
            => RecentFailuresIn(failed_attempts', last'.tenant, now') = 0 ]_vars

-----------------------------------------------------------------------------
(* C9 *)

\* C9: a request denied because the secret store is unavailable (both calls
\* failed, the tenant not being reported absent) leaves the failure count as
\* it was.
C9_OutageNotCounted ==
    [][ (HmacStep /\ last'.via = "error")
            => RecentFailuresIn(failed_attempts', last'.tenant, now')
                  = RecentFailures(last'.tenant) ]_vars

-----------------------------------------------------------------------------
(* C10 *)

\* C10: a request for which no secret can be obtained (no fresh cache entry
\* and the store reports the tenant absent or fails) is never allowed, by
\* the HMAC authorizer or by the MVP authorizer.
C10_FailClosedOnSecret ==
    [][ /\ (HmacStep /\ last'.tenant # None
            /\ ResolvedStage(last'.tenant, last'.store) = "none")
               => ~last'.allowed
        /\ (MvpStep /\ last'.store \in {"notfound", "error"})
               => ~last'.allowed ]_vars

\* a correctly signed request was denied while the store was down
C10_Witness ==
    /\ last.handler = "hmac" /\ last.sig = "current" /\ last.off = 0
    /\ last.store = "error" /\ last.via = "error"
    /\ last.message = "Invalid tenant"

-----------------------------------------------------------------------------
(* Vocabulary of the rate limit properties *)

\* the request presents the API key of a registered, active site and the
\* table answers the key lookup
ValidSiteRequest(req) ==
    /\ req.auth_header.key.owner \in SiteIds
    /\ req.key_db = "ok"
    /\ req.status = "active"

\* the 60-second bucket a time falls into
BucketStart(t) == t - (t % MINUTE_WINDOW)
BucketStarts == {BucketStart(t) : t \in 0..RateMaxTime}

\* Allow decisions, with the rate limit queries answered, at times lo..hi
GrantedBetween(lo, hi) ==
    Cardinality({i \in 1..Len(granted) : lo <= granted[i] /\ granted[i] <= hi})

\* counted requests of a site stored with a time in lo..hi
StoredBetween(site_id, lo, hi) ==
    Cardinality({r \in rate_records[site_id] : lo <= r /\ r <= hi})

-----------------------------------------------------------------------------
(* C11 *)

\* C11: when the table fails the rate limit queries of a request that
\* presents the key of an active site, the rate limiter reports the request
\* as allowed and the authorization proceeds to an Allow policy: no such
\* request is ever denied.
C11_RateLimiterFailsOpen ==
    (wp_last.req.db = "down" /\ ValidSiteRequest(wp_last.req))
        => (wp_last.allowed /\ wp_last.policy.Effect = "Allow")

\* a request was allowed with the table down although the minute window
\* already held more counted requests than the limit
C11_Witness ==
    /\ wp_last.req.db = "down"
    /\ wp_last.allowed
    /\ wp_last.at = now
    /\ StoredBetween(wp_last.site_id, now - MINUTE_WINDOW, now) > MinuteLimit

-----------------------------------------------------------------------------
(* C12 *)

\* C12: with a minute limit of N, at most N requests of a site are allowed
\* (by rate limit checks the table answered) within one 60-second bucket,
\* several requests in the same second included.
C12_AtMostLimitPerBucket ==
    \A b \in BucketStarts : GrantedBetween(b, b + MINUTE_WINDOW - 1) <= MinuteLimit

-----------------------------------------------------------------------------
(* C13 *)

\* C13: once a site has used up its minute limit in one 60-second bucket, a
\* request of the site in the next bucket, before any request was counted
\* in that bucket, is not refused by the minute window.
C13_NextBucketAllowed ==
    (/\ wp_last.at = now
     /\ ValidSiteRequest(wp_last.req)
     /\ wp_last.req.db = "up"
     /\ BucketStart(now) >= MINUTE_WINDOW
     /\ GrantedBetween(BucketStart(now) - MINUTE_WINDOW, BucketStart(now) - 1)
            >= MinuteLimit
     /\ StoredBetween(wp_last.site_id, BucketStart(now), now) = 0)
        => wp_last.cause # "minute"

-----------------------------------------------------------------------------
(* C14 *)

\* C14: under every interleaving of the handler invocations no counted
\* request is lost (the table holds one rate limit item per request counted
\* for the site) and check-and-count is atomic (no 60 seconds see more
\* Allow decisions than the minute limit).
C14_AtomicCheckAndIncrement ==
    /\ \A s \in SiteIds : StoredBetween(s, 0, RateMaxTime) = request_count[s]
    /\ \A t \in 0..RateMaxTime :
          GrantedBetween(t - MINUTE_WINDOW + 1, t) <= MinuteLimit

-----------------------------------------------------------------------------
(* Vocabulary of the decision properties *)

\* the request is denied for a reason attributable to the client: an
\* out-of-tolerance timestamp, a tenant the store does not know, a wrong
\* signature, or a lockout caused by such failures
ClientAttributable(req) ==
    /\ ~req.allowed
    /\ \/ req.message \in {"Invalid timestamp", "Invalid signature", "Rate limit exceeded"}
       \/ req.message = "Invalid tenant" /\ req.store = "notfound"

\* s is an initial segment of t
IsPrefix(s, t) == Len(s) <= Len(t) /\ \A i \in 1..Len(s) : s[i] = t[i]

\* the timestamp of the request is well formed and within the tolerance
TimestampInTolerance(req) ==
    req.fmt = "iso" /\ Abs(req.off) <= TIMESTAMP_TOLERANCE_SECONDS

-----------------------------------------------------------------------------
(* C15 *)

\* C15: two requests denied at the same time for client-attributable
\* reasons get the same deny policy, whatever the two reasons are.
C15_UniformDeny ==
    [][(/\ HmacStep
        /\ last.handler = "hmac"
        /\ ClientAttributable(last)
        /\ ClientAttributable(last'))
            => last'.policy = last.policy]_vars

-----------------------------------------------------------------------------
(* C16 *)

\* C16: a request with tenant_id, timestamp, signature or body missing or
\* empty is denied before any other check runs: no check is called, the
\* secret store is not consulted and no failure is recorded.
C16_MissingFieldDenied ==
    [][(/\ HmacStep
        /\ \/ ~HeadersPresent(last')
           \/ last'.body = "")
            => (/\ ~last'.allowed
                /\ last'.checks = << >>
                /\ last'.calls = 0
                /\ UNCHANGED <<failed_attempts, secret_cache>>)]_vars

-----------------------------------------------------------------------------
(* C17 *)

-----------------------------------------------------------------------------
(* C18 *)

-----------------------------------------------------------------------------
(* C19 *)

\* C19: while the store holds both a current and a pending version of a
\* tenant's secret, a fresh request of a tenant that is not locked out,
\* correctly signed with either of the two secrets, is allowed.
C19_EitherSecretAllowed ==
    [][(/\ HmacStep
        /\ HeadersPresent(last')
        /\ last'.store = "rotating"
        /\ TimestampInTolerance(last')
        /\ ~LockedOut(last'.tenant)
        /\ last'.sig \in {"current", "pending"})
            => last'.allowed]_vars

-----------------------------------------------------------------------------
(* C20 *)

\* C20: every policy an authorizer returns is either an Allow policy, with
\* Effect Allow, the authenticated tenant (or site) as principalId and the
\* same identifier in its context, or a Deny policy, with Effect Deny and
\* principalId 'unauthorized'; an allowed request gets the former and a
\* denied request the latter.
C20_PolicyShape ==
    /\ last.handler \in {"hmac", "mvp"} =>
          IF last.allowed
          THEN /\ last.policy.Effect = "Allow"
               /\ last.tenant \in TenantIds
               /\ last.policy.principalId = last.tenant
               /\ last.policy.context.tenant_id = last.tenant
          ELSE /\ last.policy.Effect = "Deny"
               /\ last.policy.principalId = "unauthorized"
    /\ wp_last # NoWpRequest =>
          IF wp_last.allowed
          THEN /\ wp_last.policy.Effect = "Allow"
               /\ wp_last.req.auth_header.key.owner \in SiteIds
               /\ wp_last.policy.principalId = wp_last.req.auth_header.key.owner
               /\ wp_last.policy.context.site_id = wp_last.req.auth_header.key.owner
          ELSE /\ wp_last.policy.Effect = "Deny"
               /\ wp_last.policy.principalId = "unauthorized"

\* the HMAC authorizer has denied a request of a tenant and the plugin
\* authorizer has allowed a request of a site
C20_Witness ==
    /\ last.handler = "hmac" /\ ~last.allowed /\ last.tenant \in TenantIds
    /\ last.policy.Effect = "Deny"
    /\ wp_last.allowed /\ wp_last.policy.Effect = "Allow"

-----------------------------------------------------------------------------
(* C23 *)

\* the request got as far as resolving the secret
ReachedSecretResolution(req) ==
    \E i \in 1..Len(req.checks) : req.checks[i] = "_get_tenant_secret"

-----------------------------------------------------------------------------
(* C27 *)

\* C27: a POST whose signature is the correct digest written in upper case
\* is rejected by the signature validation.
C27_UpperCaseRejected ==
    (simple_last.method = "POST" /\ simple_last.sig = "upper")
        => simple_last.status = 401

-----------------------------------------------------------------------------
(* C29 *)

\* C29: a lockout ends.  A request denied because the tenant is locked is
\* not recorded as a failure, handling a request leaves no failure behind
\* that is an hour old or older, and a tenant with fewer than the threshold
\* of failures within the hour is not refused as locked.
C29_LockoutEnds ==
    [][(HmacStep /\ HeadersPresent(last')) =>
          (/\ LockedOut(last'.tenant) =>
                 RecentFailuresIn(failed_attempts', last'.tenant, now)
                     = RecentFailures(last'.tenant)
           /\ last'.tenant \in DOMAIN failed_attempts =>
                 \A i \in 1..Len(failed_attempts'[last'.tenant]) :
                     failed_attempts'[last'.tenant][i] > now - FAILED_ATTEMPT_HORIZON
           /\ RecentFailures(last'.tenant) < MAX_FAILED_ATTEMPTS =>
                 last'.message # "Rate limit exceeded")]_vars

\* a request was allowed an hour after the tenant's failures, all of which
\* were cleaned from the list
C29_Witness ==
    /\ last.handler = "hmac" /\ last.allowed
    /\ now >= FAILED_ATTEMPT_HORIZON
    /\ last.tenant \in DOMAIN failed_attempts
    /\ failed_attempts[last.tenant] = << >>

-----------------------------------------------------------------------------
(* C24 *)

\* age of the cache entry of the tenant; the TTL if there is none
CacheAge(tenant_id) ==
    IF tenant_id \in DOMAIN secret_cache
    THEN now - secret_cache[tenant_id][2]
    ELSE SECRET_CACHE_TTL

\* C24: a secret is served from the cache only while the age of its entry is
\* strictly below the TTL of 300 s; a request that resolves the secret when
\* the entry has reached the TTL queries the store again, and the expired
\* entry is gone afterwards: replaced by the store's answer, or absent when
\* the store gave none.
C24_CacheTtlStrict ==
    [][(HmacStep /\ ReachedSecretResolution(last')) =>
          (/\ last'.via = "cache" <=> CacheAge(last'.tenant) < SECRET_CACHE_TTL
           /\ last'.via = "cache" => (last'.calls = 0 /\ secret_cache' = secret_cache)
           /\ CacheAge(last'.tenant) >= SECRET_CACHE_TTL =>
                 (/\ last'.calls >= 1
                  /\ last'.store = "ok" =>
                        (/\ last'.tenant \in DOMAIN secret_cache'
                         /\ secret_cache'[last'.tenant][2] = now)
                  /\ last'.store # "ok" => last'.tenant \notin DOMAIN secret_cache'))]_vars

\* a request served from the cache one second before the entry expires
C24_Witness ==
    /\ last.handler = "hmac" /\ last.via = "cache" /\ last.allowed
    /\ last.tenant \in DOMAIN secret_cache
    /\ now - secret_cache[last.tenant][2] = SECRET_CACHE_TTL - 1

-----------------------------------------------------------------------------
(* C25 *)

\* C25: every request that reaches the rate limiter is counted, also when
\* it is denied: after a request with the key of an active site was refused
\* by the rate limiter or by the checks that follow it, the rate records of
\* the site hold an entry for the time of that request.
C25_DeniedRequestCounted ==
    (/\ ValidSiteRequest(wp_last.req)
     /\ ~wp_last.allowed
     /\ wp_last.cause \in {"minute", "hour", "day", "Suspicious activity detected"})
        => wp_last.at \in rate_records[wp_last.site_id]

-----------------------------------------------------------------------------
(* C30 *)

\* the invocation met an exception its handler does not expect: a null
\* header map (HMAC and MVP authorizer) or a failing store or key lookup
UnexpectedFault(req) ==
    req.tenant = NoHeaders \/ req.store = "error"

-----------------------------------------------------------------------------
(* C28 *)

\* failures of the tenant within the hour, recorded by any instance
TotalRecentFailures(tenant_id) ==
    RecentFailures(tenant_id) + RecentFailuresIn(standby.fa, tenant_id, now)

\* (a step that leaves standby unchanged is a request, not a change of the
\* instance that serves the tenant)
\* C28: the lockout decision depends only on state shared by all instances:
\* whichever instance handles a request that carries all headers, it refuses
\* the request as locked out exactly when the failures of the tenant within
\* the hour, summed over all instances, have reached the threshold.
C28_LockoutAcrossInstances ==
    [][(HmacStep /\ standby' = standby /\ HeadersPresent(last')) =>
          (last'.message = "Rate limit exceeded"
              <=> TotalRecentFailures(last'.tenant) >= MAX_FAILED_ATTEMPTS)]_vars

-----------------------------------------------------------------------------
(* C22 *)

\* C22: every correctly signed request of a tenant that is validated while
\* other correctly signed requests of the tenant are being validated on the
\* same validator is allowed, under every interleaving of their steps.
C22_ConcurrentValidAllowed ==
    thread_last # NoDecision => thread_last.allowed

-----------------------------------------------------------------------------
(* C26 *)

\* requests of the identifier counted within the window that ends now
WindowCount(identifier, window_name) ==
    Cardinality({r \in limiter_records[identifier] :
                    now - WindowSeconds(window_name) <= r /\ r <= now})

\* the configured windows whose count has reached their limit
ReachedWindows(req) ==
    {i \in 1..Len(req.limits) :
        WindowCount(req.identifier, req.limits[i][1]) >= req.limits[i][2]}

\* the step is a call of check_rate_limit; limiter_last' describes it
LimiterCheckStep == limiter_last' # limiter_last

\* C26: a rate limit check the table answers rejects the request exactly
\* when some configured window has reached its limit, and the denial then
\* reports the smallest such window (minute before hour before day), with
\* the count and the limit of that window, in whatever order the windows
\* were configured.
C26_SmallestWindowReported ==
    [][(LimiterCheckStep /\ limiter_last'.db = "up") =>
          LET req == limiter_last'
              reached == ReachedWindows(req)
          IN  /\ req.result.allowed <=> reached = {}
              /\ reached # {} =>
                    \E i \in reached :
                        /\ \A j \in reached :
                              WindowSeconds(req.limits[i][1])
                                  <= WindowSeconds(req.limits[j][1])
                        /\ req.result.limit_type = req.limits[i][1]
                        /\ req.result.current_count
                              = WindowCount(req.identifier, req.limits[i][1])
                        /\ req.result.limit = req.limits[i][2]]_vars

-----------------------------------------------------------------------------
(* C21 *)

\* the value a map holds for a key, as a sequence of length one; empty if
\* it holds none
Entry(map, key) == IF key \in DOMAIN map THEN <<map[key]>> ELSE << >>

\* the step is a request to the HMAC authorizer, not a call of RateLimiter
TenantRequestStep ==
    HmacStep /\ limiter_records' = limiter_records /\ limiter_last' = limiter_last

\* C21: failure tracking and rate limiting are isolated per scope.  A
\* request of one tenant, whatever its outcome, leaves the failure list and
\* the cached secret of every other tenant as they were; a tenant is refused
\* as locked out exactly when its own failures within the hour have reached
\* the threshold, and its correctly signed request is allowed otherwise,
\* whether or not another tenant is locked.  A call of the rate limiter
\* changes the records of at most the identifier it is made for, and its
\* answer depends on the records of that identifier only.
C21_ScopesIsolated ==
    [][/\ TenantRequestStep =>
             \A other \in Identifiers \ {last'.tenant} :
                 /\ Entry(failed_attempts', other) = Entry(failed_attempts, other)
                 /\ Entry(secret_cache', other) = Entry(secret_cache, other)
       /\ (TenantRequestStep /\ HeadersPresent(last')) =>
             /\ last'.message = "Rate limit exceeded" <=> LockedOut(last'.tenant)
             /\ (last'.sig = "current" /\ ~LockedOut(last'.tenant)) => last'.allowed
       /\ Cardinality({id \in Identifiers :
                          limiter_records'[id] # limiter_records[id]}) <= 1
       /\ LimiterCheckStep =>
             /\ limiter_records' = limiter_records
             /\ limiter_last'.result.allowed
                   <=> WindowCount(limiter_last'.identifier, "minute") < IsolationLimit
      ]_vars

\* tenant t_a is locked out and has used up its rate limit; the last
\* request and the last rate limit check of tenant t_b were allowed
C21_Witness ==
    /\ LockedOut("t_a")
    /\ last.handler = "hmac" /\ last.tenant = "t_b" /\ last.allowed
    /\ limiter_records["t_a"] # {}
    /\ limiter_last.identifier = "t_b" /\ limiter_last.result.allowed

-----------------------------------------------------------------------------
(* C32 *)

\* the request got as far as the call of validate_hmac
ReachedValidation(req) ==
    req.method = "POST" /\ req.body \notin {"", "toolarge", "notjson"}

\* the request carries the expected signature, hex(HMAC-SHA256(secret,
\* timestamp + ':' + body)), and a timestamp within the 5-minute window
CarriesExpectedSignature(req) ==
    req.sig = "current" /\ req.fmt = "unix" /\ Abs(req.off) <= SIMPLE_TIMESTAMP_WINDOW

-----------------------------------------------------------------------------
(* C31 *)

\* the limit of the site for a tier and failure status
TenantLimit(tier, failures) ==
    IF failures > 5 THEN 10
    ELSE IF tier = "premium" THEN 1000
    ELSE IF tier = "burst" THEN 150
    ELSE 100

\* the step is a call of the enhanced rate limiter that the table answers;
\* sec_last' describes it
SecCheckStep == sec_counts' # sec_counts /\ sec_last'.db = "up"

\* C31: for every request the table answers, the limit applied to the
\* source address is never larger than the limit applied to the site for
\* the same tier and failure status, and a request that carries an address
\* whose count exceeds the address limit is denied, also when the count of
\* the site is within the site limit.
C31_AddressLimitEnforced ==
    [][SecCheckStep =>
          (/\ sec_last'.rate_limit
                 = TenantLimit(sec_last'.tier, sec_last'.failed_attempts)
           /\ sec_last'.ip_limit <= sec_last'.rate_limit
           /\ (sec_last'.client_ip # NoIp /\ sec_counts'.ip > sec_last'.ip_limit)
                 => ~sec_last'.allowed)]_vars

\* a request was denied for the count of its address (51 > 50) while the
\* count of the site was within the site limit
C31_Witness ==
    /\ sec_last.db = "up" /\ sec_last.client_ip # NoIp
    /\ ~sec_last.allowed
    /\ sec_last.ip_count > sec_last.ip_limit
    /\ sec_last.site_count <= sec_last.rate_limit
    /\ sec_last.failed_attempts = 0

-----------------------------------------------------------------------------
(* C33 *)

\* the credentials stored for the i-th registration of the domain
CredentialsFor(tbl, i) == {c \in tbl.creds : c.registration_id = i}

\* the step returns a response of the key exchange; reg_last' is the response
ExchangeResponseStep == reg_last' # reg_last /\ reg_last'.handler = "key_exchange"

\* C33: a temp key is exchanged at most once.  At most one set of
\* credentials is ever stored for a registration, also when invocations with
\* the same temp key run concurrently; an exchange succeeds only while no
\* credentials are stored for its temp key; and once they are stored, an
\* invocation with that key is refused at the status check (ALREADY_ACTIVE,
\* or INVALID_TEMP_KEY when the lookup finds no valid key) and goes no
\* further.
C33_ExchangedAtMostOnce ==
    [][/\ \A i \in 1..Len(reg_table'.regs) :
             Cardinality(CredentialsFor(reg_table', i)) <= 1
       /\ (ExchangeResponseStep /\ reg_last'.status = 200)
             => CredentialsFor(reg_table, reg_last'.registration_id) = {}
       /\ \A q \in Procs :
             (kx_proc[q].pc = "idle" /\ kx_proc'[q].pc = "verifying")
                => CredentialsFor(reg_table, kx_proc'[q].reg) = {}
       /\ (/\ ExchangeResponseStep
           /\ reg_last'.request = "start"
           /\ \E i \in 1..Len(reg_table.regs) :
                 /\ TempKey(i) = reg_last'.temp_key
                 /\ CredentialsFor(reg_table, i) # {})
             => reg_last'.code \in {"ALREADY_ACTIVE", "INVALID_TEMP_KEY"}]_vars

-----------------------------------------------------------------------------
(* C34 *)

\* the step returns the response to a well-formed registration of the
\* domain that the table answered and the rate limit of the address let
\* pass; reg_last' is the response
RegistrationStep ==
    /\ reg_last' # reg_last
    /\ reg_last'.handler = "registration"
    /\ reg_last'.request = "valid"
    /\ reg_last'.db = "up"
    /\ RegRateAllowed(reg_table.rate, now)

\* the registration of the domain: its latest record
LatestRegistration == reg_table.regs[Len(reg_table.regs)]

\* C34: registering a domain again is idempotent while its registration is
\* pending and its temp key has not expired: the response is a success with
\* the temp key and registration id of the existing record, and no record is
\* created; registering a domain whose registration is active is refused
\* with ALREADY_REGISTERED.
C34_ReRegistrationIdempotent ==
    [][(RegistrationStep /\ reg_table.regs # << >>) =>
          (/\ (/\ LatestRegistration.status = "pending"
               /\ now - LatestRegistration.created_at <= TEMP_KEY_EXPIRY)
                 => (/\ reg_last'.status = 200
                     /\ reg_last'.temp_key = LatestRegistration.temp_key
                     /\ reg_last'.registration_id
                           = LatestRegistration.registration_id
                     /\ reg_table'.regs = reg_table.regs)
           /\ LatestRegistration.status = "active"
                 => (/\ reg_last'.status = 409
                     /\ reg_last'.code = "ALREADY_REGISTERED"
                     /\ reg_table' = reg_table))]_vars

====
